---- MODULE Spec2Model ----
(***************************************************************************)
(* Model of the AI generation pipeline of 10x-cards:                       *)
(*   - OpenRouterService (src/lib/openrouter.service.ts): the remote model  *)
(*     client with its retry loop, error classification and parsing;       *)
(*   - the zod schemas of src/lib/validation.ts;                            *)
(*   - GenerationService, FlashcardService and the two POST handlers.      *)
(***************************************************************************)
EXTENDS Integers, Sequences, FiniteSets, TLC

(***************************************************************************)
(* Bounds of the model.                                                    *)
(***************************************************************************)
\* largest maxRetries / retryDelay a caller passes explicitly to the constructor
MaxRetriesCfg == 2
MaxRetryDelayCfg == 2

(***************************************************************************)
(* Optional values: <<>> is JavaScript's undefined, <<x>> a present value. *)
(***************************************************************************)
None == <<>>
Some(x) == <<x>>

RECURSIVE SumSeq(_)
SumSeq(s) == IF s = <<>> THEN 0 ELSE s[1] + SumSeq(Tail(s))

(***************************************************************************)
(* OpenRouterService: construction.                                        *)
(***************************************************************************)
DefaultTimeout == 60000
DefaultMaxRetries == 3
DefaultRetryDelay == 1000

\* `config.x || d`: an absent value and the falsy value 0 both give the default
OrDefault(opt, d) == IF opt = None \/ opt[1] = 0 THEN d ELSE opt[1]

DefaultModelParameters ==
    [temperature |-> 7, top_p |-> 1, frequency_penalty |-> 0,
     presence_penalty |-> 0, max_tokens |-> 4096]

\* the fields of a freshly constructed instance (the API key is present)
NewOpenRouterService(config) ==
    [timeout |-> OrDefault(config.timeout, DefaultTimeout),
     maxRetries |-> OrDefault(config.maxRetries, DefaultMaxRetries),
     retryDelay |-> OrDefault(config.retryDelay, DefaultRetryDelay),
     currentSystemMessage |-> "",
     currentUserMessage |-> "",
     currentResponseFormat |-> FALSE,
     currentModelName |-> "gpt-4o-mini",
     currentModelParameters |-> DefaultModelParameters,
     lastRequestMetadata |-> None]

\* the configurations a caller of the constructor may pass
ClientConfigs ==
    [timeout : {None},
     maxRetries : {None} \cup {Some(n) : n \in 0..MaxRetriesCfg},
     retryDelay : {None} \cup {Some(n) : n \in 0..MaxRetryDelayCfg}]

(***************************************************************************)
(* Errors.  name is the JavaScript class name; code, statusCode,           *)
(* originalError and retryable are the fields of OpenRouterError.          *)
(***************************************************************************)
OpenRouterError(message, code, statusCode, originalError, retryable) ==
    [name |-> "OpenRouterError", message |-> message, code |-> code,
     statusCode |-> statusCode, originalError |-> originalError,
     retryable |-> retryable]

\* an error that is not an OpenRouterError (AbortError, TypeError, SyntaxError)
PlainError(name, message) ==
    [name |-> name, message |-> message, code |-> "none",
     statusCode |-> None, originalError |-> "none", retryable |-> FALSE]

(***************************************************************************)
(* The remote endpoint as one HTTP attempt sees it.                        *)
(***************************************************************************)
\* HTTP statuses the endpoint answers with
Statuses == {200, 299, 304, 400, 401, 403, 429, 499, 500, 503}

\* message contents of the first choice; [3 cards] and the like abbreviate
\* that many card objects, some with texts longer than the limits
Contents ==
    {"", "plain text", "{}", "{\"flashcards\":[]}",
     "{\"flashcards\":[{\"front\":\"Q\",\"back\":\"A\"}]}",
     "{\"flashcards\":[{\"front\":\"\",\"back\":\"A\"}]}",
     "{\"flashcards\":[3 cards]}", "{\"flashcards\":[5 cards]}",
     "{\"flashcards\":[6 cards]}"}

\* n cards with short texts
Cards(n) == [i \in 1..n |-> [front |-> 1, back |-> 1]]

\* JSON.parse on the contents above: "" and "plain text" are not JSON.  A
\* decoded object is given by its flashcards array, if it has one; a text
\* inside it is given by its length.
JSONParse(content) ==
    IF content = "{}"
    THEN [ok |-> TRUE, value |-> [hasFlashcards |-> FALSE, flashcards |-> <<>>]]
    ELSE IF content = "{\"flashcards\":[]}"
    THEN [ok |-> TRUE, value |-> [hasFlashcards |-> TRUE, flashcards |-> <<>>]]
    ELSE IF content = "{\"flashcards\":[{\"front\":\"Q\",\"back\":\"A\"}]}"
    THEN [ok |-> TRUE, value |-> [hasFlashcards |-> TRUE, flashcards |-> Cards(1)]]
    ELSE IF content = "{\"flashcards\":[{\"front\":\"\",\"back\":\"A\"}]}"
    THEN [ok |-> TRUE,
          value |-> [hasFlashcards |-> TRUE,
                     flashcards |-> <<[front |-> 0, back |-> 1]>>]]
    ELSE IF content = "{\"flashcards\":[3 cards]}"
    THEN [ok |-> TRUE,
          value |-> [hasFlashcards |-> TRUE,
                     flashcards |-> <<[front |-> 1, back |-> 501],
                                      [front |-> 200, back |-> 500],
                                      [front |-> 201, back |-> 1]>>]]
    ELSE IF content = "{\"flashcards\":[5 cards]}"
    THEN [ok |-> TRUE, value |-> [hasFlashcards |-> TRUE, flashcards |-> Cards(5)]]
    ELSE IF content = "{\"flashcards\":[6 cards]}"
    THEN [ok |-> TRUE, value |-> [hasFlashcards |-> TRUE, flashcards |-> Cards(6)]]
    ELSE [ok |-> FALSE, value |-> [hasFlashcards |-> FALSE, flashcards |-> <<>>]]

\* decoded response bodies (ApiResponse); hasChoices = FALSE: no choices field
ApiResponses ==
    {[hasChoices |-> FALSE, choices |-> <<>>],
     [hasChoices |-> TRUE, choices |-> <<>>]}
    \cup {[hasChoices |-> TRUE, choices |-> <<[content |-> c]>>] : c \in Contents}

\* what one fetch can end in: the abort of the timeout timer, a transport
\* failure, or a response whose body does or does not decode as JSON
FetchOutcomes ==
    {[kind |-> "abort"], [kind |-> "network"]}
    \cup {[kind |-> "response", status |-> s, decodable |-> FALSE] : s \in Statuses}
    \cup {[kind |-> "response", status |-> s, decodable |-> TRUE, data |-> d] :
            s \in {200, 299}, d \in ApiResponses}

\* response.ok
ResponseOk(status) == status >= 200 /\ status <= 299

(***************************************************************************)
(* executeRequest: classification of a non-2xx response.                   *)
(***************************************************************************)
\* variant: 403 is not recognised as an authentication failure
HttpErrorCodeOnly401(status) ==
    IF status = 401 THEN "AUTHENTICATION_ERROR"
    ELSE IF status = 429 THEN "RATE_LIMIT_ERROR"
    ELSE "HTTP_ERROR"

HttpErrorCode(status) ==
    IF status = 401 \/ status = 403 THEN "AUTHENTICATION_ERROR"
    ELSE IF status = 429 THEN "RATE_LIMIT_ERROR"
    ELSE "HTTP_ERROR"

\* variant: every 4xx/5xx except 403 is retried
HttpRetryableAuthRetried(status) ==
    IF status = 403 THEN FALSE ELSE status >= 400

HttpRetryable(status) ==
    IF status = 401 \/ status = 403 THEN FALSE
    ELSE IF status = 429 THEN TRUE
    ELSE status >= 500

HttpError(status) ==
    OpenRouterError("HTTP error", HttpErrorCode(status), Some(status),
                    "errorData", HttpRetryable(status))

\* what the try block of one attempt throws; None when it returns the data
Thrown(o) ==
    IF o.kind = "abort" THEN Some(PlainError("AbortError", "aborted"))
    ELSE IF o.kind = "network" THEN Some(PlainError("TypeError", "fetch failed"))
    ELSE IF ~ResponseOk(o.status) THEN Some(HttpError(o.status))
    ELSE IF ~o.decodable THEN Some(PlainError("SyntaxError", "bad body"))
    ELSE None

\* variant: a constant delay instead of an exponential one
BackoffDelayConstant(retryDelay, attempt) == retryDelay

\* variant: the exponent is the number of the attempt instead of its index
BackoffDelayFromOne(retryDelay, attempt) == retryDelay * 2^(attempt + 1)

\* this.retryDelay * Math.pow(2, attempt)
BackoffDelay(retryDelay, attempt) == retryDelay * 2^attempt

Retry(delay, lastError) == [do |-> "retry", delay |-> delay, error |-> lastError]
Throw(error) == [do |-> "throw", delay |-> 0, error |-> error]

(***************************************************************************)
(* executeRequest: the catch block of one attempt.  The result is either   *)
(* a retry after a backoff delay or the error thrown out of the loop.      *)
(***************************************************************************)
\* variant: the loop gives up one attempt early
CatchAttemptOneShort(error, attempt, maxRetries, retryDelay) ==
    IF error.name = "AbortError" THEN
        LET timeoutError == OpenRouterError("Request timed out", "TIMEOUT_ERROR",
                                            None, "AbortError", TRUE)
        IN IF attempt < maxRetries - 1
           THEN Retry(BackoffDelay(retryDelay, attempt), timeoutError)
           ELSE Throw(timeoutError)
    ELSE IF error.name = "TypeError" THEN
        LET networkError == OpenRouterError("Network error", "NETWORK_ERROR",
                                            None, "TypeError", TRUE)
        IN IF attempt < maxRetries - 1
           THEN Retry(BackoffDelay(retryDelay, attempt), networkError)
           ELSE Throw(networkError)
    ELSE IF error.name = "OpenRouterError" /\ ~error.retryable THEN Throw(error)
    ELSE IF attempt < maxRetries - 1 /\ error.name = "OpenRouterError" /\ error.retryable
         THEN Retry(BackoffDelay(retryDelay, attempt), error)
    ELSE IF error.name = "OpenRouterError" THEN Throw(error)
    ELSE Throw(OpenRouterError("Request failed after all attempts", "REQUEST_FAILED",
                               None, error.name, FALSE))

\* variant: an error of no known class is retried like a transient one
CatchAttemptRetryUnclassified(error, attempt, maxRetries, retryDelay) ==
    IF error.name = "OpenRouterError" /\ ~error.retryable THEN Throw(error)
    ELSE IF attempt < maxRetries
    THEN Retry(BackoffDelay(retryDelay, attempt),
               IF error.name = "AbortError"
               THEN OpenRouterError("Request timed out", "TIMEOUT_ERROR",
                                    None, "AbortError", TRUE)
               ELSE IF error.name = "TypeError"
               THEN OpenRouterError("Network error", "NETWORK_ERROR",
                                    None, "TypeError", TRUE)
               ELSE error)
    ELSE IF error.name = "AbortError"
    THEN Throw(OpenRouterError("Request timed out", "TIMEOUT_ERROR",
                               None, "AbortError", TRUE))
    ELSE IF error.name = "TypeError"
    THEN Throw(OpenRouterError("Network error", "NETWORK_ERROR",
                               None, "TypeError", TRUE))
    ELSE IF error.name = "OpenRouterError" THEN Throw(error)
    ELSE Throw(OpenRouterError("Request failed after all attempts", "REQUEST_FAILED",
                               None, error.name, FALSE))

CatchAttempt(error, attempt, maxRetries, retryDelay) ==
    IF error.name = "AbortError" THEN
        LET timeoutError == OpenRouterError("Request timed out", "TIMEOUT_ERROR",
                                            None, "AbortError", TRUE)
        IN IF attempt < maxRetries
           THEN Retry(BackoffDelay(retryDelay, attempt), timeoutError)
           ELSE Throw(timeoutError)
    ELSE IF error.name = "TypeError" THEN
        LET networkError == OpenRouterError("Network error", "NETWORK_ERROR",
                                            None, "TypeError", TRUE)
        IN IF attempt < maxRetries
           THEN Retry(BackoffDelay(retryDelay, attempt), networkError)
           ELSE Throw(networkError)
    ELSE IF error.name = "OpenRouterError" /\ ~error.retryable THEN Throw(error)
    ELSE IF attempt < maxRetries /\ error.name = "OpenRouterError" /\ error.retryable
         THEN Retry(BackoffDelay(retryDelay, attempt), error)
    ELSE IF error.name = "OpenRouterError" THEN Throw(error)
    ELSE Throw(OpenRouterError("Request failed after all attempts", "REQUEST_FAILED",
                               None, error.name, FALSE))

(***************************************************************************)
(* parseResponse.  The result is [ok |-> TRUE, value] or [ok |-> FALSE,    *)
(* error]; a returned value is tagged with the way it was produced.        *)
(***************************************************************************)
\* variant: in JSON mode an undecodable content is handed back as raw text
ParseResponseLenient(response, responseFormat) ==
    IF ~response.hasChoices \/ Len(response.choices) = 0
    THEN [ok |-> FALSE,
          error |-> OpenRouterError("Invalid API response: no choices returned",
                                    "INVALID_RESPONSE", None, "none", FALSE)]
    ELSE LET content == response.choices[1].content
         IN IF content = ""
            THEN [ok |-> FALSE,
                  error |-> OpenRouterError("Invalid API response: empty content",
                                            "EMPTY_RESPONSE", None, "none", FALSE)]
            ELSE IF responseFormat /\ JSONParse(content).ok
            THEN [ok |-> TRUE,
                  value |-> [kind |-> "json", json |-> JSONParse(content).value]]
            ELSE [ok |-> TRUE, value |-> [kind |-> "text", text |-> content]]

ParseResponse(response, responseFormat) ==
    IF ~response.hasChoices \/ Len(response.choices) = 0
    THEN [ok |-> FALSE,
          error |-> OpenRouterError("Invalid API response: no choices returned",
                                    "INVALID_RESPONSE", None, "none", FALSE)]
    ELSE LET content == response.choices[1].content
         IN IF content = ""
            THEN [ok |-> FALSE,
                  error |-> OpenRouterError("Invalid API response: empty content",
                                            "EMPTY_RESPONSE", None, "none", FALSE)]
            ELSE IF responseFormat
            THEN IF JSONParse(content).ok
                 THEN [ok |-> TRUE,
                       value |-> [kind |-> "json", json |-> JSONParse(content).value]]
                 ELSE [ok |-> FALSE,
                       error |-> OpenRouterError("Failed to parse JSON response",
                                                 "JSON_PARSE_ERROR", None,
                                                 "SyntaxError", FALSE)]
            ELSE [ok |-> TRUE, value |-> [kind |-> "text", text |-> content]]

(***************************************************************************)
(* State.                                                                  *)
(*   svc      the fields of the OpenRouterService instance                 *)
(*   call     the sendChatMessage call in progress or just completed:     *)
(*            pc is "idle", "fetch" (an HTTP attempt is in flight),        *)
(*            "backoff" (sleeping before the next attempt), "returned"     *)
(*            or "raised"                                                  *)
(*   fetched  the outcomes of the HTTP attempts the call has made so far   *)
(*   slept    the backoff delays the call has slept (or is sleeping)       *)
(*   lastSetModel  the arguments of the latest setModel call, if any        *)
(*   other    a second sendChatMessage call on the same instance, made     *)
(*            while the first is in progress: its position, its attempt    *)
(*            and what it returned or raised                               *)
(*   observed what each of the two callers reads with                      *)
(*            getLastRequestMetadata() when it resumes after its call      *)
(*   jobs     the continuations queued in the current turn of the event    *)
(*            loop: for each, the caller and the outcome of its fetch      *)
(*   hashed   the calls of calculateHash made so far: the request, the     *)
(*            row the digest is for, the text and the digest               *)
(*   config   the configuration the instance was constructed with, where   *)
(*            a specification keeps it                                     *)
(*   timer    the timeout timer of the attempt in flight: "armed" until    *)
(*            fetch resolves, "cleared" while the body of the response is  *)
(*            read                                                         *)
(*   env      the environment: whether OPENROUTER_API_KEY is set            *)
(*   req      the HTTP request an endpoint handler is serving, if any      *)
(*   hpc      the handler's position: "idle", "ai" (generateFlashcards     *)
(*            awaits sendChatMessage), "log" (it awaits the error-log      *)
(*            insert) or "done"                                            *)
(*   resp     the handler's response, once given                           *)
(*   invoked  the services and store operations invoked for the request    *)
(*   service  the service call made (by the handler, for the request): its  *)
(*            name, its arguments,                                         *)
(*            its position ("idle", "log" while generateFlashcards awaits   *)
(*            the error-log insert, "returned" or "raised"), what it        *)
(*            returned or raised, and the inserts it has issued, each with  *)
(*            its table, its rows and its outcome ("pending" until the      *)
(*            store answers)                                               *)
(*   generations, flashcards, errorLogs   the tables of the record store   *)
(***************************************************************************)
VARIABLES svc, call, fetched, slept, lastSetModel, other, observed, jobs, hashed,
          config, timer, parked, view,
          env, req, hpc, resp, invoked, service, generations, flashcards, errorLogs

clientVars == <<svc, call, fetched, slept>>
useVars == <<lastSetModel, other, observed, jobs, hashed, config, timer, parked, view>>
storeVars == <<generations, flashcards, errorLogs>>
apiVars ==
    <<env, req, hpc, resp, invoked, service, generations, flashcards, errorLogs>>
vars == <<svc, call, fetched, slept, lastSetModel, other, observed, jobs, hashed,
          config, timer, parked, view,
          env, req, hpc, resp, invoked, service, generations, flashcards, errorLogs>>

IdleCall ==
    [pc |-> "idle", attempt |-> 0, payload |-> None, result |-> None, error |-> None]

IdleOther == [pc |-> "idle", attempt |-> 0, result |-> None, error |-> None]

Callers == {1, 2}

IdleService ==
    [name |-> "none", args |-> None, pc |-> "idle", result |-> None,
     error |-> None, inserts |-> <<>>]

\* one insert issued to the store
Insert(table, rows, outcome) == [table |-> table, rows |-> rows, outcome |-> outcome]

UserMessages == {"", "Generate"}

\* buildRequestPayload
BuildRequestPayload(s, userMessage) ==
    [model |-> s.currentModelName,
     messages |-> (IF s.currentSystemMessage # ""
                   THEN <<[role |-> "system", content |-> s.currentSystemMessage]>>
                   ELSE <<>>)
                  \o <<[role |-> "user", content |-> userMessage]>>,
     parameters |-> s.currentModelParameters,
     response_format |-> s.currentResponseFormat]

\* the metadata sendChatMessage stores when it returns / when it raises
SuccessMetadata(s) ==
    [model |-> s.currentModelName, attempt |-> 1, success |-> TRUE,
     errorCode |-> "none"]

\* variant: the record of an earlier call is kept
FailureMetadataKeepsFirst(s, error) ==
    IF s.lastRequestMetadata # None THEN s.lastRequestMetadata[1]
    ELSE [model |-> s.currentModelName, attempt |-> 1, success |-> FALSE,
          errorCode |-> IF error.name = "OpenRouterError" THEN error.code
                        ELSE "UNKNOWN_ERROR"]

FailureMetadata(s, error) ==
    [model |-> s.currentModelName, attempt |-> 1, success |-> FALSE,
     errorCode |-> IF error.name = "OpenRouterError" THEN error.code
                   ELSE "UNKNOWN_ERROR"]

\* sendChatMessage ends by raising error / by returning value
Raise(error) ==
    /\ call' = [call EXCEPT !.pc = "raised", !.error = Some(error)]
    /\ svc' = [svc EXCEPT !.lastRequestMetadata = Some(FailureMetadata(svc, error))]

Return(value) ==
    /\ call' = [call EXCEPT !.pc = "returned", !.result = Some(value)]
    /\ svc' = [svc EXCEPT !.lastRequestMetadata = Some(SuccessMetadata(svc))]

(***************************************************************************)
(* The setters of the instance; they may be invoked at any time.           *)
(***************************************************************************)
SetUserMessage(message) ==
    /\ svc.currentUserMessage # message
    /\ svc' = [svc EXCEPT !.currentUserMessage = message]
    /\ UNCHANGED <<call, fetched, slept>>
    /\ UNCHANGED useVars
    /\ UNCHANGED apiVars

EnableJsonMode ==
    /\ ~svc.currentResponseFormat
    /\ svc' = [svc EXCEPT !.currentResponseFormat = TRUE]
    /\ UNCHANGED <<call, fetched, slept>>
    /\ UNCHANGED useVars
    /\ UNCHANGED apiVars

DisableJsonMode ==
    /\ svc.currentResponseFormat
    /\ svc' = [svc EXCEPT !.currentResponseFormat = FALSE]
    /\ UNCHANGED <<call, fetched, slept>>
    /\ UNCHANGED useVars
    /\ UNCHANGED apiVars

\* {...base, ...over} on objects given as functions of their field names
Spread(base, over) ==
    [k \in DOMAIN base \cup DOMAIN over |->
        IF k \in DOMAIN over THEN over[k] ELSE base[k]]

\* the parameters argument of setModel: any of the fields may be absent
\* (temperature in tenths, as in DefaultModelParameters)
ModelParameterChoices ==
    LET given == [temperature |-> 2, max_tokens |-> 100]
    IN {[k \in D |-> given[k]] : D \in SUBSET {"temperature", "max_tokens"}}

ModelNames == {"gpt-4o-mini", "anthropic/claude-3.5-sonnet"}

SetModel(name, parameters) ==
    /\ svc' = [svc EXCEPT !.currentModelName = name,
                          !.currentModelParameters = Spread(@, parameters)]
    /\ lastSetModel' = Some([name |-> name, parameters |-> parameters])
    /\ UNCHANGED <<call, fetched, slept, other, observed, jobs, hashed,
                   config, timer, parked, view>>
    /\ UNCHANGED apiVars

(***************************************************************************)
(* sendChatMessage, up to the first fetch of executeRequest.               *)
(***************************************************************************)
\* the call of sendChatMessage(userMessage) on the instance s
BeginSend(s, userMessage) ==
    /\ fetched' = <<>>
    /\ slept' = <<>>
    /\ LET messageToSend == IF userMessage # "" THEN userMessage
                            ELSE s.currentUserMessage
       IN IF messageToSend = ""
          THEN /\ call' = [IdleCall EXCEPT
                              !.pc = "raised",
                              !.error = Some(OpenRouterError(
                                  "User message is required", "MISSING_USER_MESSAGE",
                                  None, "none", FALSE))]
               /\ svc' = [s EXCEPT !.lastRequestMetadata = Some(
                              [model |-> s.currentModelName, attempt |-> 1,
                               success |-> FALSE, errorCode |-> "MISSING_USER_MESSAGE"])]
          ELSE /\ call' = [IdleCall EXCEPT
                              !.pc = "fetch",
                              !.payload = Some(BuildRequestPayload(s, messageToSend))]
               /\ svc' = s

SendChatMessage(userMessage) ==
    /\ call.pc \in {"idle", "returned", "raised"}
    /\ BeginSend(svc, userMessage)
    /\ UNCHANGED useVars
    /\ UNCHANGED apiVars

(***************************************************************************)
(* The fetch of attempt call.attempt settles with outcome o: executeRequest *)
(* either returns the data, and sendChatMessage parses it and ends, or     *)
(* runs its catch block, which starts a backoff sleep or throws out of     *)
(* the loop, and sendChatMessage ends by raising.                          *)
(***************************************************************************)
ExecuteRequestResumes(o) ==
    /\ call.pc = "fetch"
    /\ fetched' = Append(fetched, o)
    /\ IF Thrown(o) = None
       THEN LET parsed == ParseResponse(o.data, svc.currentResponseFormat)
            IN /\ IF parsed.ok THEN Return(parsed.value) ELSE Raise(parsed.error)
               /\ slept' = slept
       ELSE LET c == CatchAttempt(Thrown(o)[1], call.attempt,
                                  svc.maxRetries, svc.retryDelay)
            IN IF c.do = "retry"
               THEN /\ call' = [call EXCEPT !.pc = "backoff"]
                    /\ slept' = Append(slept, c.delay)
                    /\ svc' = svc
               ELSE /\ Raise(c.error)
                    /\ slept' = slept

FetchSettles(o) ==
    /\ ExecuteRequestResumes(o)
    /\ UNCHANGED useVars
    /\ UNCHANGED apiVars

\* variant: the loop does not wait for the attempt in flight
BackoffElapsedEarly ==
    /\ call.pc \in {"fetch", "backoff"}
    /\ call' = [call EXCEPT !.pc = "fetch", !.attempt = call.attempt + 1]
    /\ UNCHANGED <<svc, fetched, slept>>
    /\ UNCHANGED useVars
    /\ UNCHANGED apiVars

\* the backoff timer fires: the loop continues with the next attempt
BackoffElapsed ==
    /\ call.pc = "backoff"
    /\ call' = [call EXCEPT !.pc = "fetch", !.attempt = call.attempt + 1]
    /\ UNCHANGED <<svc, fetched, slept>>
    /\ UNCHANGED useVars
    /\ UNCHANGED apiVars

(***************************************************************************)
(* The client on its own: an instance constructed with any configuration,  *)
(* used for any number of calls against any endpoint behaviour.            *)
(***************************************************************************)
InitClient ==
    /\ config = None
    /\ svc \in {NewOpenRouterService(c) : c \in ClientConfigs}
    /\ call = IdleCall
    /\ fetched = <<>>
    /\ slept = <<>>
    /\ lastSetModel = None
    /\ other = IdleOther
    /\ observed = [c \in Callers |-> None]
    /\ jobs = <<>>
    /\ hashed = <<>>
    /\ timer = "armed"
    /\ parked = None
    /\ view = None
    /\ env = [OPENROUTER_API_KEY |-> TRUE]
    /\ req = None
    /\ hpc = "idle"
    /\ resp = None
    /\ invoked = <<>>
    /\ service = IdleService
    /\ generations = <<>>
    /\ flashcards = <<>>
    /\ errorLogs = <<>>

NextClient ==
    \/ \E m \in UserMessages : SetUserMessage(m)
    \/ EnableJsonMode
    \/ DisableJsonMode
    \/ \E m \in UserMessages : SendChatMessage(m)
    \/ \E o \in FetchOutcomes : FetchSettles(o)
    \/ BackoffElapsed

SpecClient == InitClient /\ [][NextClient]_vars

(***************************************************************************)
(* The client against an endpoint that may fall silent.  fetch resolves    *)
(* when the status and headers of the response arrive, and executeRequest  *)
(* clears the timeout timer then; the body is read after that.  The        *)
(* endpoint is free to answer or not; the timers fire.                     *)
(***************************************************************************)
InitTimed ==
    /\ config \in ClientConfigs
    /\ svc = NewOpenRouterService(config)
    /\ call = IdleCall
    /\ fetched = <<>>
    /\ slept = <<>>
    /\ lastSetModel = None
    /\ other = IdleOther
    /\ observed = [c \in Callers |-> None]
    /\ jobs = <<>>
    /\ hashed = <<>>
    /\ timer = "armed"
    /\ parked = None
    /\ view = None
    /\ env = [OPENROUTER_API_KEY |-> TRUE]
    /\ req = None
    /\ hpc = "idle"
    /\ resp = None
    /\ invoked = <<>>
    /\ service = IdleService
    /\ generations = <<>>
    /\ flashcards = <<>>
    /\ errorLogs = <<>>

\* `await fetch(...)` resolves with the response; clearTimeout(timeoutId)
ResponseArrives ==
    /\ call.pc = "fetch"
    /\ timer = "armed"
    /\ timer' = "cleared"
    /\ UNCHANGED <<svc, call, fetched, slept, lastSetModel, other, observed, jobs,
                   hashed, config, parked, view>>
    /\ UNCHANGED apiVars

\* the attempt ends with outcome o: fetch rejects, or the body of the
\* response that arrived has been read
AttemptEnds(o) ==
    /\ o.kind # "abort"
    /\ timer = (IF o.kind = "response" THEN "cleared" ELSE "armed")
    /\ ExecuteRequestResumes(o)
    /\ timer' = "armed"
    /\ UNCHANGED <<lastSetModel, other, observed, jobs, hashed, config, parked, view>>
    /\ UNCHANGED apiVars

\* the timeout timer fires: controller.abort() rejects the fetch
TimeoutFires ==
    /\ timer = "armed"
    /\ ExecuteRequestResumes([kind |-> "abort"])
    /\ timer' = "armed"
    /\ UNCHANGED <<lastSetModel, other, observed, jobs, hashed, config, parked, view>>
    /\ UNCHANGED apiVars

NextTimed ==
    \/ \E m \in UserMessages : SendChatMessage(m)
    \/ ResponseArrives
    \/ \E o \in FetchOutcomes : AttemptEnds(o)
    \/ TimeoutFires
    \/ BackoffElapsed

SpecTimed ==
    InitTimed /\ [][NextTimed]_vars /\ WF_vars(TimeoutFires) /\ WF_vars(BackoffElapsed)

(***************************************************************************)
(* One instance whose model and response format are set at any time.       *)
(***************************************************************************)
\* maxRetries of the instance of the two specifications below
FewRetries == 1

InitInstance ==
    /\ config = None
    /\ svc = NewOpenRouterService([timeout |-> None, maxRetries |-> Some(FewRetries),
                                   retryDelay |-> None])
    /\ call = IdleCall
    /\ fetched = <<>>
    /\ slept = <<>>
    /\ lastSetModel = None
    /\ other = IdleOther
    /\ observed = [c \in Callers |-> None]
    /\ jobs = <<>>
    /\ hashed = <<>>
    /\ timer = "armed"
    /\ parked = None
    /\ view = None
    /\ env = [OPENROUTER_API_KEY |-> TRUE]
    /\ req = None
    /\ hpc = "idle"
    /\ resp = None
    /\ invoked = <<>>
    /\ service = IdleService
    /\ generations = <<>>
    /\ flashcards = <<>>
    /\ errorLogs = <<>>

NextConfig ==
    \/ \E name \in ModelNames, parameters \in ModelParameterChoices :
          SetModel(name, parameters)
    \/ EnableJsonMode
    \/ DisableJsonMode
    \/ \E m \in {"Generate"} : SendChatMessage(m)
    \/ \E o \in FetchOutcomes : FetchSettles(o)
    \/ BackoffElapsed

SpecConfig == InitInstance /\ [][NextConfig]_vars

(***************************************************************************)
(* Two callers of one instance.  The second calls sendChatMessage while    *)
(* the call of the first is in progress.  The continuations of one turn of *)
(* the event loop run in the order in which they were queued: when the     *)
(* fetches of both calls settle in one turn, jobs holds the continuation   *)
(* of each executeRequest, and the continuation of a caller, queued when   *)
(* its call ends, runs after them.  The queue is empty before the next     *)
(* turn (a timer, a response, a new call) starts.                          *)
(***************************************************************************)
\* the call of caller c
CallOf(c) == IF c = 1 THEN [pc |-> call.pc, result |-> call.result, error |-> call.error]
             ELSE [pc |-> other.pc, result |-> other.result, error |-> other.error]

\* the continuation of caller c is queued
Resuming(c) == CallOf(c).pc \in {"returned", "raised"} /\ observed[c] = None

\* nothing is queued: the next turn of the event loop may start
Drained == jobs = <<>> /\ \A c \in Callers : ~Resuming(c)

FirstSend(userMessage) ==
    /\ Drained
    /\ call.pc = "idle"
    /\ other.pc = "idle"
    /\ SendChatMessage(userMessage)

OtherEnds(pc, result, error, metadata) ==
    /\ other' = [other EXCEPT !.pc = pc, !.result = result, !.error = error]
    /\ svc' = [svc EXCEPT !.lastRequestMetadata = Some(metadata)]

OtherSend(userMessage) ==
    /\ Drained
    /\ other.pc = "idle"
    /\ call.pc \in {"fetch", "backoff"}
    /\ LET messageToSend == IF userMessage # "" THEN userMessage
                            ELSE svc.currentUserMessage
           missing == OpenRouterError("User message is required",
                                      "MISSING_USER_MESSAGE", None, "none", FALSE)
       IN IF messageToSend = ""
          THEN OtherEnds("raised", None, Some(missing), FailureMetadata(svc, missing))
          ELSE /\ other' = [other EXCEPT !.pc = "fetch"]
               /\ svc' = svc
    /\ UNCHANGED <<call, fetched, slept, lastSetModel, observed, jobs, hashed,
                   config, timer, parked, view>>
    /\ UNCHANGED apiVars

\* the fetches of the callers in DOMAIN outcomes settle in one turn, in
\* the order given
Awaiting(c) == CallOf(c).pc = "fetch"

FetchesSettle(order, outcomes) ==
    /\ Drained
    /\ \A i \in DOMAIN order : Awaiting(order[i])
    /\ jobs' = [i \in DOMAIN order |-> [caller |-> order[i], outcome |-> outcomes[i]]]
    /\ UNCHANGED <<svc, call, fetched, slept, lastSetModel, other, observed, hashed,
                   config, timer, parked, view>>
    /\ UNCHANGED apiVars

OtherExecuteRequestResumes(o) ==
    /\ other.pc = "fetch"
    /\ IF Thrown(o) = None
       THEN LET parsed == ParseResponse(o.data, svc.currentResponseFormat)
            IN IF parsed.ok
               THEN OtherEnds("returned", Some(parsed.value), None, SuccessMetadata(svc))
               ELSE OtherEnds("raised", None, Some(parsed.error),
                              FailureMetadata(svc, parsed.error))
       ELSE LET c == CatchAttempt(Thrown(o)[1], other.attempt,
                                  svc.maxRetries, svc.retryDelay)
            IN IF c.do = "retry"
               THEN /\ other' = [other EXCEPT !.pc = "backoff"]
                    /\ svc' = svc
               ELSE OtherEnds("raised", None, Some(c.error),
                              FailureMetadata(svc, c.error))

\* the first queued continuation runs
RunJob ==
    /\ jobs # <<>>
    /\ jobs' = Tail(jobs)
    /\ IF Head(jobs).caller = 1
       THEN /\ ExecuteRequestResumes(Head(jobs).outcome)
            /\ other' = other
       ELSE /\ OtherExecuteRequestResumes(Head(jobs).outcome)
            /\ UNCHANGED <<call, fetched, slept>>
    /\ UNCHANGED <<lastSetModel, observed, hashed,
                   config, timer, parked, view>>
    /\ UNCHANGED apiVars

FirstBackoffElapsed ==
    /\ Drained
    /\ BackoffElapsed

OtherBackoffElapsed ==
    /\ Drained
    /\ other.pc = "backoff"
    /\ other' = [other EXCEPT !.pc = "fetch", !.attempt = other.attempt + 1]
    /\ UNCHANGED <<svc, call, fetched, slept, lastSetModel, observed, jobs, hashed,
                   config, timer, parked, view>>
    /\ UNCHANGED apiVars

\* caller c resumes after its await and calls getLastRequestMetadata()
Observe(c) ==
    /\ jobs = <<>>
    /\ Resuming(c)
    /\ observed' = [observed EXCEPT ![c] = svc.lastRequestMetadata]
    /\ UNCHANGED <<svc, call, fetched, slept, lastSetModel, other, jobs, hashed,
                   config, timer, parked, view>>
    /\ UNCHANGED apiVars

\* the fetches that may settle in the next turn, in the order they settle in
Orders ==
    IF Drained
    THEN {o \in {<<1>>, <<2>>, <<1, 2>>, <<2, 1>>} : \A i \in DOMAIN o : Awaiting(o[i])}
    ELSE {}

NextOverlap ==
    \/ \E m \in UserMessages : FirstSend(m)
    \/ \E m \in UserMessages : OtherSend(m)
    \/ \E order \in Orders :
          \E outcomes \in [DOMAIN order -> FetchOutcomes] :
              FetchesSettle(order, outcomes)
    \/ RunJob
    \/ FirstBackoffElapsed
    \/ OtherBackoffElapsed
    \/ \E c \in Callers : Observe(c)

SpecOverlap == InitInstance /\ [][NextOverlap]_vars

(***************************************************************************)
(* validation.ts.  A text is given by its length; a schema yields the      *)
(* list of its issues, each a path and a message, and succeeds when the    *)
(* list is empty.                                                          *)
(***************************************************************************)
MinSourceText == 1000
MaxSourceText == 10000
MaxFront == 200
MaxBack == 500

Issue(path, message) == [path |-> path, message |-> message]

\* variant: the .min(1000) check is missing
GenerateFlashcardsCommandIssuesNoMin(body) ==
    LET t == body.source_text
    IN IF t.type = "undefined" THEN <<Issue(<<"source_text">>, "Required")>>
       ELSE IF t.type # "string"
       THEN <<Issue(<<"source_text">>, "Expected string")>>
       ELSE IF t.length > MaxSourceText
            THEN <<Issue(<<"source_text">>,
                         "Source text cannot exceed 10000 characters")>>
            ELSE <<>>

\* variant: the upper bound is exclusive
GenerateFlashcardsCommandIssuesExclusiveMax(body) ==
    LET t == body.source_text
    IN IF t.type = "undefined" THEN <<Issue(<<"source_text">>, "Required")>>
       ELSE IF t.type # "string"
       THEN <<Issue(<<"source_text">>, "Expected string")>>
       ELSE (IF t.length < MinSourceText
             THEN <<Issue(<<"source_text">>,
                          "Source text must be at least 1000 characters long")>>
             ELSE <<>>)
            \o (IF t.length >= MaxSourceText
                THEN <<Issue(<<"source_text">>,
                             "Source text cannot exceed 10000 characters")>>
                ELSE <<>>)

\* generateFlashcardsCommandSchema.safeParse(body)
GenerateFlashcardsCommandIssues(body) ==
    LET t == body.source_text
    IN IF t.type = "undefined" THEN <<Issue(<<"source_text">>, "Required")>>
       ELSE IF t.type # "string"
       THEN <<Issue(<<"source_text">>, "Expected string")>>
       ELSE (IF t.length < MinSourceText
             THEN <<Issue(<<"source_text">>,
                          "Source text must be at least 1000 characters long")>>
             ELSE <<>>)
            \o (IF t.length > MaxSourceText
                THEN <<Issue(<<"source_text">>,
                             "Source text cannot exceed 10000 characters")>>
                ELSE <<>>)

Sources == {"ai-full", "ai-edited", "manual"}

\* variant: only the manual half of the rule is tested
GenerationIdConsistentManualOnly(data) ==
    IF data.source = "manual" THEN data.generation_id = None ELSE TRUE

\* the predicate given to .refine: generation_id is null for a manual
\* flashcard and not null for an AI one
GenerationIdConsistent(data) ==
    IF data.source = "manual" THEN data.generation_id = None
    ELSE IF data.source = "ai-full" \/ data.source = "ai-edited"
    THEN data.generation_id # None
    ELSE TRUE

\* flashcardCreateDtoSchema on the item at (0-based) position index
FlashcardCreateDtoIssues(item, index) ==
    LET at(field) == <<"flashcards", index, field>>
    IN (IF item.front < 1 THEN <<Issue(at("front"), "Front text is required")>>
        ELSE <<>>)
       \o (IF item.front > MaxFront
           THEN <<Issue(at("front"), "Front text cannot exceed 200 characters")>>
           ELSE <<>>)
       \o (IF item.back < 1 THEN <<Issue(at("back"), "Back text is required")>>
           ELSE <<>>)
       \o (IF item.back > MaxBack
           THEN <<Issue(at("back"), "Back text cannot exceed 500 characters")>>
           ELSE <<>>)
       \o (IF item.source \notin Sources
           THEN <<Issue(at("source"), "Invalid enum value")>>
           ELSE <<>>)
       \o (IF ~GenerationIdConsistent(item)
           THEN <<Issue(at("generation_id"),
                        "generation_id must be null for manual source and required for ai-full/ai-edited sources")>>
           ELSE <<>>)

RECURSIVE ItemsIssues(_, _)
ItemsIssues(items, index) ==
    IF index >= Len(items) THEN <<>>
    ELSE FlashcardCreateDtoIssues(items[index + 1], index)
         \o ItemsIssues(items, index + 1)

\* flashcardsCreateCommandSchema.safeParse(body)
FlashcardsCreateCommandIssues(body) ==
    (IF Len(body.flashcards) < 1
     THEN <<Issue(<<"flashcards">>, "At least one flashcard is required")>>
     ELSE <<>>)
    \o ItemsIssues(body.flashcards, 0)

(***************************************************************************)
(* Responses of the handlers.                                              *)
(***************************************************************************)
Response(status, error, message, details, body) ==
    [status |-> status, error |-> error, message |-> message,
     details |-> details, body |-> body]

Unauthorized ==
    Response(401, "Unauthorized", "Authentication required. Please log in.",
             <<>>, None)
BadRequest == Response(400, "Bad Request", "Invalid JSON in request body", <<>>, None)

\* variant: a creation is answered with 200
CreatedAsOk(body) == Response(200, "none", "none", <<>>, Some(body))

Created(body) == Response(201, "none", "none", <<>>, Some(body))

\* redirect(path): status 302, the Location header given as the body
Redirect(path) == Response(302, "none", "none", <<>>, Some([location |-> path]))

\* the answer of the catch block of the handler of the endpoint
InternalServerError(endpoint) ==
    Response(500, "Internal Server Error",
             IF endpoint = "generations"
             THEN "An error occurred while generating flashcards. Please try again later."
             ELSE "An error occurred while creating flashcards. Please try again later.",
             <<>>, None)

\* validation.error.errors.map(err => ({field: err.path.join('.'), message}))
ValidationError(issues) ==
    Response(400, "Validation Error", "Invalid request data",
             [i \in 1..Len(issues) |->
                 [field |-> issues[i].path, message |-> issues[i].message]],
             None)

(***************************************************************************)
(* GenerationService.                                                      *)
(***************************************************************************)
GenerationTimeout == 90000
GenerationMaxRetries == 3
GenerationMaxTokens == 2000
MODEL_NAME == "openai/gpt-4o-mini"

\* the OpenRouterService a GenerationService constructs and configures
ConfiguredOpenRouter ==
    LET s == NewOpenRouterService([timeout |-> Some(GenerationTimeout),
                                   maxRetries |-> Some(GenerationMaxRetries),
                                   retryDelay |-> None])
    IN [s EXCEPT !.currentModelName = MODEL_NAME,
                 !.currentModelParameters =
                     [@ EXCEPT !.temperature = 7, !.max_tokens = GenerationMaxTokens],
                 !.currentSystemMessage = "generate exactly 5 flashcards as JSON",
                 !.currentResponseFormat = TRUE]

\* calculateHash: the digest is a one-to-one image of the text
CalculateHash(text) == <<"sha256", text.chars, text.length>>

(***************************************************************************)
(* calculateHash on a text given by its characters:                        *)
(* createHash('sha256').update(text).digest('hex'), SHA-256 as in FIPS     *)
(* 180-4.  A 32-bit word is the pair <<high, low>> of its 16-bit halves.   *)
(***************************************************************************)
\* x XOR y and x AND y for 0 <= x, y < 16, at [x + 1][y + 1]
Xor4 ==
    <<<<0, 1, 2, 3, 4, 5, 6, 7, 8, 9, 10, 11, 12, 13, 14, 15>>,
      <<1, 0, 3, 2, 5, 4, 7, 6, 9, 8, 11, 10, 13, 12, 15, 14>>,
      <<2, 3, 0, 1, 6, 7, 4, 5, 10, 11, 8, 9, 14, 15, 12, 13>>,
      <<3, 2, 1, 0, 7, 6, 5, 4, 11, 10, 9, 8, 15, 14, 13, 12>>,
      <<4, 5, 6, 7, 0, 1, 2, 3, 12, 13, 14, 15, 8, 9, 10, 11>>,
      <<5, 4, 7, 6, 1, 0, 3, 2, 13, 12, 15, 14, 9, 8, 11, 10>>,
      <<6, 7, 4, 5, 2, 3, 0, 1, 14, 15, 12, 13, 10, 11, 8, 9>>,
      <<7, 6, 5, 4, 3, 2, 1, 0, 15, 14, 13, 12, 11, 10, 9, 8>>,
      <<8, 9, 10, 11, 12, 13, 14, 15, 0, 1, 2, 3, 4, 5, 6, 7>>,
      <<9, 8, 11, 10, 13, 12, 15, 14, 1, 0, 3, 2, 5, 4, 7, 6>>,
      <<10, 11, 8, 9, 14, 15, 12, 13, 2, 3, 0, 1, 6, 7, 4, 5>>,
      <<11, 10, 9, 8, 15, 14, 13, 12, 3, 2, 1, 0, 7, 6, 5, 4>>,
      <<12, 13, 14, 15, 8, 9, 10, 11, 4, 5, 6, 7, 0, 1, 2, 3>>,
      <<13, 12, 15, 14, 9, 8, 11, 10, 5, 4, 7, 6, 1, 0, 3, 2>>,
      <<14, 15, 12, 13, 10, 11, 8, 9, 6, 7, 4, 5, 2, 3, 0, 1>>,
      <<15, 14, 13, 12, 11, 10, 9, 8, 7, 6, 5, 4, 3, 2, 1, 0>>>>

And4 ==
    <<<<0, 0, 0, 0, 0, 0, 0, 0, 0, 0, 0, 0, 0, 0, 0, 0>>,
      <<0, 1, 0, 1, 0, 1, 0, 1, 0, 1, 0, 1, 0, 1, 0, 1>>,
      <<0, 0, 2, 2, 0, 0, 2, 2, 0, 0, 2, 2, 0, 0, 2, 2>>,
      <<0, 1, 2, 3, 0, 1, 2, 3, 0, 1, 2, 3, 0, 1, 2, 3>>,
      <<0, 0, 0, 0, 4, 4, 4, 4, 0, 0, 0, 0, 4, 4, 4, 4>>,
      <<0, 1, 0, 1, 4, 5, 4, 5, 0, 1, 0, 1, 4, 5, 4, 5>>,
      <<0, 0, 2, 2, 4, 4, 6, 6, 0, 0, 2, 2, 4, 4, 6, 6>>,
      <<0, 1, 2, 3, 4, 5, 6, 7, 0, 1, 2, 3, 4, 5, 6, 7>>,
      <<0, 0, 0, 0, 0, 0, 0, 0, 8, 8, 8, 8, 8, 8, 8, 8>>,
      <<0, 1, 0, 1, 0, 1, 0, 1, 8, 9, 8, 9, 8, 9, 8, 9>>,
      <<0, 0, 2, 2, 0, 0, 2, 2, 8, 8, 10, 10, 8, 8, 10, 10>>,
      <<0, 1, 2, 3, 0, 1, 2, 3, 8, 9, 10, 11, 8, 9, 10, 11>>,
      <<0, 0, 0, 0, 4, 4, 4, 4, 8, 8, 8, 8, 12, 12, 12, 12>>,
      <<0, 1, 0, 1, 4, 5, 4, 5, 8, 9, 8, 9, 12, 13, 12, 13>>,
      <<0, 0, 2, 2, 4, 4, 6, 6, 8, 8, 10, 10, 12, 12, 14, 14>>,
      <<0, 1, 2, 3, 4, 5, 6, 7, 8, 9, 10, 11, 12, 13, 14, 15>>>>

\* bitwise operations on 16-bit halves, 4 bits at a time
Bitwise16(op, x, y) ==
    4096 * op[(x \div 4096) + 1][(y \div 4096) + 1]
        + 256 * op[((x \div 256) % 16) + 1][((y \div 256) % 16) + 1]
        + 16 * op[((x \div 16) % 16) + 1][((y \div 16) % 16) + 1]
        + op[(x % 16) + 1][(y % 16) + 1]

Xor(a, b) == <<Bitwise16(Xor4, a[1], b[1]), Bitwise16(Xor4, a[2], b[2])>>
And(a, b) == <<Bitwise16(And4, a[1], b[1]), Bitwise16(And4, a[2], b[2])>>
Not(a) == <<65535 - a[1], 65535 - a[2]>>

\* (a + b) mod 2^32
Add(a, b) ==
    LET low == a[2] + b[2]
        high == a[1] + b[1] + (low \div 65536)
    IN <<high % 65536, low % 65536>>

\* rotate right and shift right by n bits, 0 < n < 32
Rotr(a, n) ==
    LET w == IF n >= 16 THEN <<a[2], a[1]>> ELSE a
        m == n % 16
    IN IF m = 0 THEN w
       ELSE <<(w[1] \div 2^m) + (w[2] % 2^m) * 2^(16 - m),
              (w[2] \div 2^m) + (w[1] % 2^m) * 2^(16 - m)>>

Shr(a, n) ==
    IF n >= 16 THEN <<0, a[1] \div 2^(n - 16)>>
    ELSE <<a[1] \div 2^n,
           (a[2] \div 2^n) + (a[1] % 2^n) * 2^(16 - n)>>

Ch(x, y, z) == Xor(And(x, y), And(Not(x), z))
Maj(x, y, z) == Xor(Xor(And(x, y), And(x, z)), And(y, z))
BigSigma0(x) == Xor(Xor(Rotr(x, 2), Rotr(x, 13)), Rotr(x, 22))
BigSigma1(x) == Xor(Xor(Rotr(x, 6), Rotr(x, 11)), Rotr(x, 25))
SmallSigma0(x) == Xor(Xor(Rotr(x, 7), Rotr(x, 18)), Shr(x, 3))
SmallSigma1(x) == Xor(Xor(Rotr(x, 17), Rotr(x, 19)), Shr(x, 10))

Sha256K ==
    <<<<17034, 12184>>, <<28983, 17553>>, <<46528, 64463>>, <<59829, 56229>>,
      <<14678, 49755>>, <<23025, 4593>>, <<37439, 33444>>, <<43804, 24277>>,
      <<55303, 43672>>, <<4739, 23297>>, <<9265, 34238>>, <<21772, 32195>>,
      <<29374, 23924>>, <<32990, 45566>>, <<39900, 1703>>, <<49563, 61812>>,
      <<58523, 27073>>, <<61374, 18310>>, <<4033, 40390>>, <<9228, 41420>>,
      <<11753, 11375>>, <<19060, 33962>>, <<23728, 43484>>, <<30457, 35034>>,
      <<38974, 20818>>, <<43057, 50797>>, <<45059, 10184>>, <<48985, 32711>>,
      <<50912, 3059>>, <<54695, 37191>>, <<1738, 25425>>, <<5161, 10599>>,
      <<10167, 2693>>, <<11803, 8504>>, <<19756, 28156>>, <<21304, 3347>>,
      <<25866, 29524>>, <<30314, 2747>>, <<33218, 51502>>, <<37490, 11397>>,
      <<41663, 59553>>, <<43034, 26187>>, <<49739, 35696>>, <<51052, 20899>>,
      <<53650, 59417>>, <<54937, 1572>>, <<62478, 13701>>, <<4202, 41072>>,
      <<6564, 49430>>, <<7735, 27656>>, <<10056, 30540>>, <<13488, 48309>>,
      <<14620, 3251>>, <<20184, 43594>>, <<23452, 51791>>, <<26670, 28659>>,
      <<29839, 33518>>, <<30885, 25455>>, <<33992, 30740>>, <<36039, 520>>,
      <<37054, 65530>>, <<42064, 27883>>, <<48889, 41975>>, <<50801, 30962>>>>

Sha256H0 ==
    <<<<27145, 58983>>, <<47975, 44677>>, <<15470, 62322>>, <<42319, 62778>>,
      <<20750, 21119>>, <<39685, 26764>>, <<8067, 55723>>, <<23520, 52505>>>>

\* the UTF-8 encoding of the characters texts are made of here
Utf8 == ("a" :> 97) @@ ("b" :> 98)

\* variant: every character is encoded as the first one is
Utf8BytesOfFirst(chars) == [i \in 1..Len(chars) |-> Utf8[chars[1]]]

Utf8Bytes(chars) == [i \in 1..Len(chars) |-> Utf8[chars[i]]]

\* the message, a 1 bit, zeros up to 56 mod 64 bytes, the length in bits as
\* 8 bytes (of which the model's lengths need the last two)
Pad(bytes) ==
    LET n == Len(bytes)
        z == (119 - n) % 64
    IN bytes \o <<128>> \o [i \in 1..(z + 6) |-> 0]
             \o <<(8 * n) \div 256, (8 * n) % 256>>

\* the 16 words of block b (from 0) of the padded message
BlockWords(padded, b) ==
    [i \in 1..16 |->
        LET at == 64 * b + 4 * (i - 1)
        IN <<256 * padded[at + 1] + padded[at + 2],
             256 * padded[at + 3] + padded[at + 4]>>]

RECURSIVE Schedule(_)
Schedule(w) ==
    IF Len(w) = 64 THEN w
    ELSE LET t == Len(w) + 1
         IN Schedule(Append(w, Add(Add(SmallSigma1(w[t - 2]), w[t - 7]),
                                   Add(SmallSigma0(w[t - 15]), w[t - 16]))))

\* the 64 rounds on the working variables s = <<a, b, c, d, e, f, g, h>>
\* (Len(s) has TLC evaluate the variables of a round before the next)
RECURSIVE Rounds(_, _, _)
Rounds(s, w, t) ==
    IF Len(s) = 8 /\ t > 64 THEN s
    ELSE LET t1 == Add(Add(Add(s[8], BigSigma1(s[5])), Ch(s[5], s[6], s[7])),
                       Add(Sha256K[t], w[t]))
             t2 == Add(BigSigma0(s[1]), Maj(s[1], s[2], s[3]))
         IN Rounds(<<Add(t1, t2), s[1], s[2], s[3], Add(s[4], t1), s[5], s[6], s[7]>>,
                   w, t + 1)

RECURSIVE Blocks(_, _, _)
Blocks(h, padded, b) ==
    IF 64 * b >= Len(padded) THEN h
    ELSE LET s == Rounds(h, Schedule(BlockWords(padded, b)), 1)
         IN Blocks([i \in 1..8 |-> Add(h[i], s[i])], padded, b + 1)

HexDigit == <<"0", "1", "2", "3", "4", "5", "6", "7",
              "8", "9", "a", "b", "c", "d", "e", "f">>

Hex16(x) ==
    HexDigit[(x \div 4096) + 1] \o HexDigit[((x \div 256) % 16) + 1]
        \o HexDigit[((x \div 16) % 16) + 1] \o HexDigit[(x % 16) + 1]

RECURSIVE Hex(_)
Hex(words) ==
    IF words = <<>> THEN ""
    ELSE Hex16(Head(words)[1]) \o Hex16(Head(words)[2]) \o Hex(Tail(words))

Sha256Hex(chars) == Hex(Blocks(Sha256H0, Pad(Utf8Bytes(chars)), 0))

\* str.substring(0, max) on a text given by its length
Substring(length, max) == IF length < max THEN length ELSE max

\* variant: a payload of other than 5 cards is refused
TransformResponseExactlyFive(response) ==
    IF response.kind # "json" \/ ~response.json.hasFlashcards
       \/ Len(response.json.flashcards) # 5
    THEN [ok |-> FALSE,
          error |-> PlainError("Error", "Invalid response format from AI service")]
    ELSE [ok |-> TRUE,
          proposals |->
              [i \in 1..Len(response.json.flashcards) |->
                  [front |-> Substring(response.json.flashcards[i].front, MaxFront),
                   back |-> Substring(response.json.flashcards[i].back, MaxBack),
                   source |-> "ai-full"]]]

\* the try block of callAIService once sendChatMessage has returned response:
\* the shape check (a count other than 5 only warns) and the map to proposals
TransformResponse(response) ==
    IF response.kind # "json" \/ ~response.json.hasFlashcards
    THEN [ok |-> FALSE,
          error |-> PlainError("Error", "Invalid response format from AI service")]
    ELSE [ok |-> TRUE,
          proposals |->
              [i \in 1..Len(response.json.flashcards) |->
                  [front |-> Substring(response.json.flashcards[i].front, MaxFront),
                   back |-> Substring(response.json.flashcards[i].back, MaxBack),
                   source |-> "ai-full"]]]

\* the catch block of callAIService: what it throws for the error it caught
RemapError(error) ==
    IF error.name # "OpenRouterError" THEN error
    ELSE PlainError("Error",
             IF error.code = "AUTHENTICATION_ERROR"
             THEN "AI service authentication failed. Please check your API key."
             ELSE IF error.code = "RATE_LIMIT_ERROR"
             THEN "AI service rate limit exceeded. Please try again later."
             ELSE IF error.code = "TIMEOUT_ERROR"
             THEN "AI service request timed out. Please try again."
             ELSE IF error.code = "NETWORK_ERROR"
             THEN "Network error while connecting to AI service. Please check your connection."
             ELSE "AI service error: " \o error.message)

\* callAIService after sendChatMessage has ended
CallAIService(c) ==
    IF c.pc = "returned"
    THEN LET t == TransformResponse(c.result[1])
         IN IF t.ok THEN t ELSE [ok |-> FALSE, error |-> RemapError(t.error)]
    ELSE [ok |-> FALSE, error |-> RemapError(c.error[1])]

\* variant: the row counts the five cards asked for
GenerationRowOfFive(id, userId, sourceText, generatedCount, duration) ==
    [id |-> id, user_id |-> userId, model |-> MODEL_NAME,
     generated_count |-> 5,
     source_text_hash |-> CalculateHash(sourceText),
     source_text_length |-> sourceText.length,
     generation_duration |-> duration]

\* the row generateFlashcards inserts into generations; time passes in the
\* backoff sleeps only, so the duration is the time slept
GenerationRow(id, userId, sourceText, generatedCount, duration) ==
    [id |-> id, user_id |-> userId, model |-> MODEL_NAME,
     generated_count |-> generatedCount,
     source_text_hash |-> CalculateHash(sourceText),
     source_text_length |-> sourceText.length,
     generation_duration |-> duration]

\* variant: the hash and the length are those of the first 1000 characters
ErrorLogRowOfPrefix(id, error, sourceText, model, userId) ==
    [id |-> id, user_id |-> userId, error_code |-> error.name,
     error_message |-> error.message, model |-> model,
     source_text_hash |->
         CalculateHash([sourceText EXCEPT !.length = Substring(@, MinSourceText)]),
     source_text_length |-> Substring(sourceText.length, MinSourceText)]

\* variant: the model and the user id are taken from each other's argument
ErrorLogRowSwapped(id, error, sourceText, model, userId) ==
    [id |-> id, user_id |-> model, error_code |-> error.name,
     error_message |-> error.message, model |-> userId,
     source_text_hash |-> CalculateHash(sourceText),
     source_text_length |-> sourceText.length]

\* the row logGenerationError inserts into generation_error_logs
ErrorLogRow(id, error, sourceText, model, userId) ==
    [id |-> id, user_id |-> userId, error_code |-> error.name,
     error_message |-> error.message, model |-> model,
     source_text_hash |-> CalculateHash(sourceText),
     source_text_length |-> sourceText.length]

\* outcomes of one insert: the rows are written, the store returns an error,
\* or the call throws
InsertOutcomes == {"ok", "error", "throws"}

\* variant: a throwing error-log insert replaces the error
RethrownAfterLogMasked(error, logOutcome) ==
    IF logOutcome = "throws" THEN PlainError("TypeError", "fetch failed") ELSE error

\* what the catch block of generateFlashcards throws once logGenerationError
\* has ended: logGenerationError ignores an error the store returns and
\* catches one the insert throws
RethrownAfterLog(error, logOutcome) == error

(***************************************************************************)
(* POST /api/generations, up to the first fetch of the model call.         *)
(***************************************************************************)
PostGenerations(user, json) ==
    /\ hpc = "idle"
    /\ req' = Some([endpoint |-> "generations", user |-> user, json |-> json])
    /\ UNCHANGED <<useVars, env, generations, flashcards, errorLogs>>
    /\ IF user = None
       THEN /\ resp' = Some(Unauthorized)
            /\ hpc' = "done"
            /\ UNCHANGED <<invoked, service, svc, call, fetched, slept>>
       ELSE IF json = None
       THEN \* request.json() throws
            /\ resp' = Some(BadRequest)
            /\ hpc' = "done"
            /\ UNCHANGED <<invoked, service, svc, call, fetched, slept>>
       ELSE IF GenerateFlashcardsCommandIssues(json[1]) # <<>>
       THEN /\ resp' = Some(ValidationError(GenerateFlashcardsCommandIssues(json[1])))
            /\ hpc' = "done"
            /\ UNCHANGED <<invoked, service, svc, call, fetched, slept>>
       ELSE IF ~env.OPENROUTER_API_KEY
       THEN \* new OpenRouterService throws MISSING_API_KEY in the constructor
            /\ resp' = Some(InternalServerError("generations"))
            /\ hpc' = "done"
            /\ invoked' = <<"new GenerationService">>
            /\ service' = [IdleService EXCEPT
                              !.name = "new GenerationService",
                              !.pc = "raised",
                              !.error = Some(OpenRouterError(
                                  "OpenRouter API key is required. Provide it via config or OPENROUTER_API_KEY environment variable.",
                                  "MISSING_API_KEY", None, "none", FALSE))]
            /\ UNCHANGED <<svc, call, fetched, slept>>
       ELSE /\ resp' = None
            /\ hpc' = "ai"
            /\ invoked' = <<"new GenerationService", "generateFlashcards",
                            "sendChatMessage">>
            /\ service' = [IdleService EXCEPT
                              !.name = "generateFlashcards",
                              !.args = Some([sourceText |-> json[1].source_text,
                                             userId |-> user[1]])]
            /\ BeginSend(ConfiguredOpenRouter, "Generate 5 educational flashcards")

(***************************************************************************)
(* POST /api/generations once sendChatMessage has ended: the rest of       *)
(* callAIService and of generateFlashcards up to its return or, on a       *)
(* failure, up to the insert that logGenerationError awaits.               *)
(***************************************************************************)
\* the catch block of generateFlashcards is entered with error
LogGenerationError(error, insertsSoFar) ==
    LET row == ErrorLogRow(Len(errorLogs) + 1, error, req[1].json[1].source_text,
                           MODEL_NAME, req[1].user[1])
    IN /\ hpc' = "log"
       /\ resp' = None
       /\ service' = [service EXCEPT
                         !.pc = "log",
                         !.error = Some(error),
                         !.inserts = insertsSoFar
                             \o <<Insert("generation_error_logs", <<row>>, "pending")>>]

GenerationCompletes(insertOutcome) ==
    /\ hpc = "ai"
    /\ call.pc \in {"returned", "raised"}
    /\ UNCHANGED <<useVars, env, req, flashcards, errorLogs, svc, call, fetched, slept>>
    /\ LET ai == CallAIService(call)
           sourceText == req[1].json[1].source_text
           userId == req[1].user[1]
       IN IF ~ai.ok
          THEN /\ LogGenerationError(ai.error, service.inserts)
               /\ invoked' = invoked \o <<"insert generation_error_logs">>
               /\ insertOutcome = "ok"   \* no generations insert is made
               /\ UNCHANGED generations
          ELSE LET row == GenerationRow(Len(generations) + 1, userId, sourceText,
                                        Len(ai.proposals), SumSeq(slept))
                   issued == service.inserts
                                 \o <<Insert("generations", <<row>>, insertOutcome)>>
               IN IF insertOutcome = "ok"
                  THEN /\ generations' = Append(generations, row)
                       /\ hpc' = "done"
                       /\ resp' = Some(Created(
                              [generation_id |-> row.id,
                               flashcards_proposals |-> ai.proposals,
                               generated_count |-> Len(ai.proposals)]))
                       /\ service' = [service EXCEPT
                              !.pc = "returned",
                              !.result = Some(
                                  [generation_id |-> row.id,
                                   flashcards_proposals |-> ai.proposals,
                                   generated_count |-> Len(ai.proposals)]),
                              !.inserts = issued]
                       /\ invoked' = invoked \o <<"insert generations">>
                  ELSE /\ LogGenerationError(
                              IF insertOutcome = "error"
                              THEN PlainError("Error", "Failed to save generation metadata")
                              ELSE PlainError("TypeError", "fetch failed"),
                              issued)
                       /\ invoked' = invoked \o <<"insert generations",
                                                  "insert generation_error_logs">>
                       /\ UNCHANGED generations

(***************************************************************************)
(* The insert of logGenerationError settles: generateFlashcards throws the *)
(* error again and the catch block of the handler answers.                 *)
(***************************************************************************)
ErrorLogSettles(logOutcome) ==
    /\ hpc = "log"
    /\ hpc' = "done"
    /\ LET n == Len(service.inserts)
           attempt == service.inserts[n]
       IN /\ errorLogs' = IF logOutcome = "ok" THEN errorLogs \o attempt.rows
                          ELSE errorLogs
          /\ service' = [service EXCEPT
                            !.pc = "raised",
                            !.error = Some(RethrownAfterLog(service.error[1], logOutcome)),
                            !.inserts[n].outcome = logOutcome]
    /\ resp' = Some(InternalServerError("generations"))
    /\ UNCHANGED <<useVars, env, req, invoked, generations, flashcards,
                   svc, call, fetched, slept>>

(***************************************************************************)
(* FlashcardService.createFlashcards.  The batch insert is all or nothing; *)
(* the store refuses a row whose generation_id names no generations row    *)
(* (foreign key).  Outcome "empty": no error and no row returned.          *)
(***************************************************************************)
FlashcardInsertOutcomes == {"ok", "error", "empty"}

ForeignKeysHold(rows) ==
    \A i \in 1..Len(rows) :
        rows[i].generation_id # None =>
            \E g \in 1..Len(generations) : generations[g].id = rows[i].generation_id[1]

\* the column types and the check of the flashcards table
ChecksHold(rows) ==
    \A i \in 1..Len(rows) :
        /\ rows[i].front <= MaxFront
        /\ rows[i].back <= MaxBack
        /\ rows[i].source \in Sources

\* variant: the fields of the item are spread into the row after user_id
FlashcardsToInsertSpread(items, userId) ==
    [i \in 1..Len(items) |->
        [front |-> items[i].front, back |-> items[i].back,
         source |-> items[i].source, generation_id |-> items[i].generation_id,
         user_id |-> IF "user_id" \in DOMAIN items[i] THEN items[i].user_id
                     ELSE userId]]

\* flashcards.map(...): user_id is the userId argument
FlashcardsToInsert(items, userId) ==
    [i \in 1..Len(items) |->
        [front |-> items[i].front, back |-> items[i].back,
         source |-> items[i].source, generation_id |-> items[i].generation_id,
         user_id |-> userId]]

\* the rows as the store keeps them, with their ids
Persisted(rows) ==
    [i \in 1..Len(rows) |->
        [id |-> Len(flashcards) + i, front |-> rows[i].front, back |-> rows[i].back,
         source |-> rows[i].source, generation_id |-> rows[i].generation_id,
         user_id |-> rows[i].user_id]]

\* variant: the list is not tested
NoFlashcardsUntested(items) == FALSE

\* !flashcards || flashcards.length === 0; a missing list is None, which is
\* the empty sequence
NoFlashcards(items) == items = None \/ Len(items) = 0

\* variant: no row returned without an error is taken for a success
AfterInsertEmptyAccepted(outcome) ==
    IF outcome = "error"
    THEN [ok |-> FALSE, message |-> "Failed to create flashcards: store error"]
    ELSE [ok |-> TRUE, message |-> "none"]

\* what createFlashcards does with the answer {data, error} of the insert
AfterInsert(outcome) ==
    IF outcome = "error"
    THEN [ok |-> FALSE, message |-> "Failed to create flashcards: " \o "store error"]
    ELSE IF outcome = "empty"
    THEN [ok |-> FALSE, message |-> "No flashcards were created"]
    ELSE [ok |-> TRUE, message |-> "none"]

\* createFlashcards(items, userId); outcome is what the store does with the
\* insert, which it refuses when a foreign key or a check does not hold
CreateFlashcards(items, userId, outcome) ==
    LET called == [IdleService EXCEPT
                      !.name = "createFlashcards",
                      !.args = Some([flashcards |-> items, userId |-> userId])]
    IN IF NoFlashcards(items)
       THEN /\ service' = [called EXCEPT
                              !.pc = "raised",
                              !.error = Some(PlainError("Error",
                                             "At least one flashcard is required"))]
            /\ invoked' = <<"createFlashcards">>
            /\ outcome = "error"
            /\ UNCHANGED flashcards
       ELSE LET rows == FlashcardsToInsert(items, userId)
                answer == IF outcome = "ok"
                             /\ ~(ForeignKeysHold(rows) /\ ChecksHold(rows))
                          THEN "error" ELSE outcome
                stored == IF answer = "ok" THEN Persisted(rows) ELSE <<>>
                issued == <<Insert("flashcards", rows, answer)>>
            IN /\ invoked' = <<"createFlashcards", "insert flashcards">>
               /\ flashcards' = flashcards \o stored
               /\ service' =
                     IF AfterInsert(answer).ok
                     THEN [called EXCEPT !.pc = "returned",
                                         !.result = Some(stored),
                                         !.inserts = issued]
                     ELSE [called EXCEPT
                              !.pc = "raised",
                              !.error = Some(PlainError("Error",
                                                        AfterInsert(answer).message)),
                              !.inserts = issued]

(***************************************************************************)
(* POST /api/flashcards.                                                   *)
(***************************************************************************)
PostFlashcards(user, json, outcome) ==
    /\ hpc = "idle"
    /\ hpc' = "done"
    /\ req' = Some([endpoint |-> "flashcards", user |-> user, json |-> json])
    /\ UNCHANGED <<useVars, env, generations, errorLogs, svc, call, fetched, slept>>
    /\ IF user = None
       THEN /\ resp' = Some(Unauthorized)
            /\ outcome = "error"
            /\ UNCHANGED <<invoked, service, flashcards>>
       ELSE IF json = None
       THEN \* request.json() throws
            /\ resp' = Some(BadRequest)
            /\ outcome = "error"
            /\ UNCHANGED <<invoked, service, flashcards>>
       ELSE IF FlashcardsCreateCommandIssues(json[1]) # <<>>
       THEN /\ resp' = Some(ValidationError(FlashcardsCreateCommandIssues(json[1])))
            /\ outcome = "error"
            /\ UNCHANGED <<invoked, service, flashcards>>
       ELSE /\ CreateFlashcards(json[1].flashcards, user[1], outcome)
            /\ resp' = Some(IF service'.pc = "returned"
                            THEN Created([flashcards |-> service'.result[1]])
                            ELSE InternalServerError("flashcards"))

(***************************************************************************)
(* The requests the endpoints receive.                                     *)
(***************************************************************************)
\* lengths tried on either side of each limit
LenSlack == 1
\* largest batch of a flashcard-creation request
MaxBatch == 2

Users == {"u1", "u2"}
LocalsUser == {None} \cup {Some(u) : u \in Users}

Around(limit) == (limit - LenSlack)..(limit + LenSlack)

SourceTexts ==
    {[type |-> "undefined"], [type |-> "number"]}
    \cup {[type |-> "string", chars |-> "a", length |-> n] :
            n \in {0} \cup Around(MinSourceText) \cup Around(MaxSourceText)}

\* a request body: None when it is not JSON, else the decoded value
GenerationBodies ==
    {None} \cup {Some(b) : b \in [source_text : SourceTexts]}
    \cup {Some([source_text |-> [type |-> "string", chars |-> "a",
                                  length |-> MinSourceText],
                 user_id |-> u]) : u \in {"u2"}}

\* the last items carry a user_id of their own, which the schema strips
FlashcardItems ==
    [front : {0, MaxFront, MaxFront + 1},
     back : {MaxBack, MaxBack + 1},
     source : Sources \cup {"other"},
     generation_id : {None, Some(1)}]
    \cup [front : {MaxFront}, back : {MaxBack}, source : {"manual"},
          generation_id : {None}, user_id : Users]

FlashcardBodies ==
    {None} \cup {Some([flashcards |-> items]) :
                    items \in UNION {[1..n -> FlashcardItems] : n \in 0..MaxBatch}}

(***************************************************************************)
(* The generation endpoint serving one request, with a model endpoint and  *)
(* a store that behave in any way.                                         *)
(***************************************************************************)
InitApi ==
    /\ config = None
    /\ svc = NewOpenRouterService([timeout |-> None, maxRetries |-> None,
                                   retryDelay |-> None])
    /\ call = IdleCall
    /\ fetched = <<>>
    /\ slept = <<>>
    /\ lastSetModel = None
    /\ other = IdleOther
    /\ observed = [c \in Callers |-> None]
    /\ jobs = <<>>
    /\ hashed = <<>>
    /\ timer = "armed"
    /\ parked = None
    /\ view = None
    /\ env \in [OPENROUTER_API_KEY : BOOLEAN]
    /\ req = None
    /\ hpc = "idle"
    /\ resp = None
    /\ invoked = <<>>
    /\ service = IdleService
    /\ flashcards = <<>>
    /\ errorLogs = <<>>

InitGen ==
    /\ InitApi
    /\ generations = <<>>

NextGen ==
    \/ \E user \in LocalsUser, json \in GenerationBodies :
          PostGenerations(user, json)
    \/ \E o \in FetchOutcomes : FetchSettles(o)
    \/ BackoffElapsed
    \/ \E insertOutcome \in InsertOutcomes : GenerationCompletes(insertOutcome)
    \/ \E logOutcome \in InsertOutcomes : ErrorLogSettles(logOutcome)

SpecGen == InitGen /\ [][NextGen]_vars

(***************************************************************************)
(* Two generation requests in one server process.  What a request holds in *)
(* its handler (its GenerationService with the OpenRouterService in it,    *)
(* the call on it, the handler's position) is its own; the tables are      *)
(* shared.  The model follows one request at a time: the other one is      *)
(* parked while it awaits.                                                 *)
(***************************************************************************)
\* what the handler of the request in focus holds
RequestScope ==
    [svc |-> svc, call |-> call, fetched |-> fetched, slept |-> slept,
     req |-> req, hpc |-> hpc, resp |-> resp, invoked |-> invoked,
     service |-> service]

\* a request that has not reached its handler yet
NewRequestScope ==
    [svc |-> NewOpenRouterService([timeout |-> None, maxRetries |-> None,
                                   retryDelay |-> None]),
     call |-> IdleCall, fetched |-> <<>>, slept |-> <<>>, req |-> None,
     hpc |-> "idle", resp |-> None, invoked |-> <<>>, service |-> IdleService]

\* variant: one OpenRouterService serves both requests
SwitchSharingClient ==
    LET next == IF parked = None THEN NewRequestScope ELSE parked[1]
    IN /\ parked' = Some(RequestScope)
       /\ svc' = svc
       /\ call' = next.call
       /\ fetched' = next.fetched
       /\ slept' = next.slept
       /\ req' = next.req
       /\ hpc' = next.hpc
       /\ resp' = next.resp
       /\ invoked' = next.invoked
       /\ service' = next.service
       /\ UNCHANGED <<lastSetModel, other, observed, jobs, hashed, config, timer,
                      view, env, generations, flashcards, errorLogs>>

\* the request in focus awaits and the event loop goes on with the other one
Switch ==
    LET next == IF parked = None THEN NewRequestScope ELSE parked[1]
    IN /\ parked' = Some(RequestScope)
       /\ svc' = next.svc
       /\ call' = next.call
       /\ fetched' = next.fetched
       /\ slept' = next.slept
       /\ req' = next.req
       /\ hpc' = next.hpc
       /\ resp' = next.resp
       /\ invoked' = next.invoked
       /\ service' = next.service
       /\ UNCHANGED <<lastSetModel, other, observed, jobs, hashed, config, timer,
                      view, env, generations, flashcards, errorLogs>>

\* what the model endpoint answers the two requests with
PairOutcomes ==
    {o \in FetchOutcomes :
        /\ o.kind = "response"
        /\ IF o.decodable
           THEN /\ o.status = 200
                /\ o.data.choices \in
                      {<<[content |-> "{\"flashcards\":[{\"front\":\"Q\",\"back\":\"A\"}]}"]>>,
                       <<[content |-> "{\"flashcards\":[5 cards]}"]>>}
           ELSE o.status \in {400, 503}}

NextPair ==
    \/ \E user \in {Some(u) : u \in Users},
          json \in {b \in GenerationBodies :
                      b # None /\ GenerateFlashcardsCommandIssues(b[1]) = <<>>
                      /\ DOMAIN b[1] = {"source_text"}
                      /\ b[1].source_text.length = MinSourceText} :
          PostGenerations(user, json)
    \/ \E o \in PairOutcomes : FetchSettles(o)
    \/ BackoffElapsed
    \/ \E insertOutcome \in InsertOutcomes : GenerationCompletes(insertOutcome)
    \/ \E logOutcome \in InsertOutcomes : ErrorLogSettles(logOutcome)
    \/ Switch

SpecPair == InitGen /\ [][NextPair]_vars

(***************************************************************************)
(* The flashcard-creation endpoint serving one request, over a store that  *)
(* holds no generation or the generation 1 of user u1.                     *)
(***************************************************************************)
InitFlash ==
    /\ InitApi
    /\ generations \in {<<>>,
                        <<GenerationRow(1, "u1",
                              [type |-> "string", chars |-> "a", length |-> MinSourceText],
                              5, 0)>>}

NextFlash ==
    /\ hpc = "idle"
    /\ \E user \in LocalsUser, json \in FlashcardBodies,
          outcome \in FlashcardInsertOutcomes :
             PostFlashcards(user, json, outcome)

SpecFlash == InitFlash /\ [][NextFlash]_vars

(***************************************************************************)
(* FlashcardService on its own: createFlashcards called once, with any     *)
(* list, over a store that behaves in any way.                             *)
(***************************************************************************)
CallCreateFlashcards ==
    /\ hpc = "idle"
    /\ hpc' = "done"
    /\ \E items \in UNION {[1..n -> FlashcardItems] : n \in 0..MaxBatch},
          userId \in Users, outcome \in FlashcardInsertOutcomes :
             CreateFlashcards(items, userId, outcome)
    /\ UNCHANGED <<useVars, env, req, resp, generations, errorLogs, svc, call, fetched, slept>>

SpecService == InitFlash /\ [][CallCreateFlashcards]_vars

(***************************************************************************)
(* The record store over time: flashcard-creation requests served one      *)
(* after the other, and deletions of generations rows.                     *)
(***************************************************************************)
\* most rows the flashcards table holds
MaxRows == 2

\* delete from generations where id = id; the foreign key of
\* flashcards.generation_id is declared on delete set null
DeleteGeneration(id) ==
    /\ \E g \in 1..Len(generations) : generations[g].id = id
    /\ generations' = SelectSeq(generations, LAMBDA row : row.id # id)
    /\ flashcards' = [i \in 1..Len(flashcards) |->
                         IF flashcards[i].generation_id = Some(id)
                         THEN [flashcards[i] EXCEPT !.generation_id = None]
                         ELSE flashcards[i]]
    /\ UNCHANGED <<useVars, env, req, hpc, resp, invoked, service, errorLogs,
                   svc, call, fetched, slept>>

\* the request has been answered; the server calls the handler anew for the
\* next request
NextRequest ==
    /\ hpc = "done"
    /\ hpc' = "idle"
    /\ req' = None
    /\ resp' = None
    /\ invoked' = <<>>
    /\ service' = IdleService
    /\ UNCHANGED <<useVars, env, generations, flashcards, errorLogs,
                   svc, call, fetched, slept>>

PostFlashcardsWithinRows ==
    /\ hpc = "idle"
    /\ \E user \in LocalsUser, json \in FlashcardBodies,
          outcome \in FlashcardInsertOutcomes :
             /\ json # None => Len(flashcards) + Len(json[1].flashcards) <= MaxRows
             /\ PostFlashcards(user, json, outcome)

NextStore ==
    \/ PostFlashcardsWithinRows
    \/ NextRequest
    \/ \E id \in {1} : DeleteGeneration(id)

SpecStore == InitFlash /\ [][NextStore]_vars

(***************************************************************************)
(* The middleware in front of the two endpoints, neither of which is a     *)
(* public path: one request, to either endpoint, with or without a session. *)
(***************************************************************************)
\* onRequest for a request to endpoint: session is what auth.getUser()
\* yields, handler is next() with locals.user = session
OnRequest(endpoint, session, json, handler) ==
    IF session # None
    THEN handler
    ELSE /\ hpc = "idle"
         /\ hpc' = "done"
         /\ req' = Some([endpoint |-> endpoint, user |-> None, json |-> json])
         /\ resp' = Some(Redirect("/auth/login"))
         /\ UNCHANGED <<useVars, env, invoked, service, generations, flashcards, errorLogs,
                        svc, call, fetched, slept>>

RequestGenerations ==
    /\ hpc = "idle"
    /\ \E session \in LocalsUser, json \in GenerationBodies :
          OnRequest("generations", session, json, PostGenerations(session, json))

RequestFlashcards ==
    /\ hpc = "idle"
    /\ \E session \in LocalsUser, json \in FlashcardBodies,
          outcome \in FlashcardInsertOutcomes :
             OnRequest("flashcards", session, json,
                       PostFlashcards(session, json, outcome))

NextApi ==
    \/ RequestGenerations
    \/ RequestFlashcards
    \/ \E o \in FetchOutcomes : FetchSettles(o)
    \/ BackoffElapsed
    \/ \E insertOutcome \in InsertOutcomes : GenerationCompletes(insertOutcome)
    \/ \E logOutcome \in InsertOutcomes : ErrorLogSettles(logOutcome)

SpecApi == InitFlash /\ [][NextApi]_vars

(***************************************************************************)
(* Properties of the client.                                               *)
(***************************************************************************)
\* the HTTP attempts the call has issued, the one in flight included
HttpAttempts == Len(fetched) + (IF call.pc = "fetch" THEN 1 ELSE 0)

CallEnded == call.pc \in {"returned", "raised"}

IsStatus(o, S) == o.kind = "response" /\ o.status \in S

Is2xx(o) == o.kind = "response" /\ o.status >= 200 /\ o.status <= 299

\* the transient failure classes: timeout, transport failure, 429, 5xx
IsTransient(o) ==
    \/ o.kind \in {"abort", "network"}
    \/ o.kind = "response" /\ (o.status = 429 \/ o.status >= 500)

C2_RateLimitedThenSuccess ==
    \A N \in 0..Len(fetched) :
        ( /\ Len(fetched) = N + 1
          /\ N < svc.maxRetries
          /\ \A k \in 1..N : IsStatus(fetched[k], {429})
          /\ Is2xx(fetched[N + 1]) ) =>
            /\ CallEnded
            /\ HttpAttempts = N + 1
            /\ Len(slept) = N
            /\ SumSeq(slept) = svc.retryDelay * (2^N - 1)
            /\ LET o == fetched[N + 1]
               IN ( /\ o.decodable
                    /\ o.data.hasChoices
                    /\ o.data.choices # <<>>
                    /\ JSONParse(o.data.choices[1].content).ok ) =>
                      /\ call.pc = "returned"
                      /\ call.result[1].kind = "json" =>
                           call.result[1].json = JSONParse(o.data.choices[1].content).value
                      /\ call.result[1].kind = "text" =>
                           call.result[1].text = o.data.choices[1].content

C2_Witness ==
    /\ call.pc = "returned"
    /\ Len(fetched) = 3
    /\ IsStatus(fetched[1], {429})
    /\ IsStatus(fetched[2], {429})
    /\ svc.maxRetries = 3

\* C3: while every attempt so far failed with a transient class the call goes
\* on, one sleep per failed attempt, until attempt maxRetries + 1 has failed;
\* then it raises, without a further sleep, the class of that last attempt.
ClassOf(o) ==
    IF o.kind = "abort" THEN "TIMEOUT_ERROR"
    ELSE IF o.kind = "network" THEN "NETWORK_ERROR"
    ELSE IF o.status = 429 THEN "RATE_LIMIT_ERROR"
    ELSE "HTTP_ERROR"

C3_TransientFailuresExhaustRetries ==
    ( /\ fetched # <<>>
      /\ \A k \in 1..Len(fetched) : IsTransient(fetched[k]) ) =>
        \/ /\ call.pc \in {"backoff", "fetch"}
           /\ Len(fetched) <= svc.maxRetries
           /\ Len(slept) = Len(fetched)
        \/ /\ call.pc = "raised"
           /\ Len(fetched) = svc.maxRetries + 1
           /\ Len(slept) = svc.maxRetries
           /\ call.error[1].code = ClassOf(fetched[Len(fetched)])
           /\ fetched[Len(fetched)].kind = "response" =>
                call.error[1].statusCode = Some(fetched[Len(fetched)].status)

\* four transient failures of different classes, the last one a timeout
C3_Witness ==
    /\ call.pc = "raised"
    /\ Len(fetched) = 4
    /\ IsStatus(fetched[1], {429})
    /\ fetched[2].kind = "network"
    /\ IsStatus(fetched[3], {503})
    /\ fetched[4].kind = "abort"
    /\ call.error[1].code = "TIMEOUT_ERROR"

C5_RequestFailedOnlyAfterAllAttempts ==
    (call.pc = "raised" /\ call.error[1].code = "REQUEST_FAILED") =>
        Len(fetched) = svc.maxRetries + 1

\* C6: parseResponse on a decoded 2xx body: no choices raises INVALID_RESPONSE,
\* else empty content raises EMPTY_RESPONSE, else in JSON mode undecodable
\* content raises JSON_PARSE_ERROR with the parser's error attached, else the
\* decoded JSON (JSON mode) or the raw content (otherwise) is returned.
C6_ParseStep ==
    (call.pc = "fetch" /\ call'.pc \in {"returned", "raised"}
        /\ Is2xx(fetched'[Len(fetched')]) /\ fetched'[Len(fetched')].decodable) =>
        LET data == fetched'[Len(fetched')].data
            jsonMode == svc.currentResponseFormat
            raisedCode(c) == call'.pc = "raised" /\ call'.error[1].code = c
        IN IF ~data.hasChoices \/ data.choices = <<>>
           THEN raisedCode("INVALID_RESPONSE")
           ELSE IF data.choices[1].content = ""
           THEN raisedCode("EMPTY_RESPONSE")
           ELSE IF jsonMode /\ ~JSONParse(data.choices[1].content).ok
           THEN /\ raisedCode("JSON_PARSE_ERROR")
                /\ call'.error[1].originalError = "SyntaxError"
           ELSE /\ call'.pc = "returned"
                /\ IF jsonMode
                   THEN /\ call'.result[1].kind = "json"
                        /\ call'.result[1].json = JSONParse(data.choices[1].content).value
                   ELSE /\ call'.result[1].kind = "text"
                        /\ call'.result[1].text = data.choices[1].content

Serving(endpoint) ==
    req # None /\ req[1].endpoint = endpoint /\ req[1].json # None

IsValidationError(r) == r.status = 400 /\ r.error = "Validation Error"

InSourceTextRange(t) ==
    t.type = "string" /\ t.length >= 1000 /\ t.length <= 10000

\* C8: the generation request of an authenticated caller passes validation
\* exactly when source_text is a string of 1000 to 10000 characters; a
\* rejection names the field source_text and gives a message.
C8_SourceTextLengthRule ==
    (Serving("generations") /\ req[1].user # None) =>
        LET t == req[1].json[1].source_text
            accepted == "generateFlashcards" \in {invoked[i] : i \in 1..Len(invoked)}
                        \/ "new GenerationService" \in {invoked[i] : i \in 1..Len(invoked)}
            rejected == resp # None /\ IsValidationError(resp[1])
        IN /\ accepted <=> InSourceTextRange(t)
           /\ rejected <=> ~InSourceTextRange(t)
           /\ rejected =>
                /\ resp[1].details # <<>>
                /\ \A i \in 1..Len(resp[1].details) :
                      /\ resp[1].details[i].field = <<"source_text">>
                      /\ resp[1].details[i].message # ""

\* a text of exactly 10000 characters was accepted and generated from
C8_Witness ==
    /\ Serving("generations")
    /\ req[1].json[1].source_text.type = "string"
    /\ req[1].json[1].source_text.length = 10000
    /\ resp # None
    /\ resp[1].status = 201

\* C9: a generation request whose source text is shorter than 1000 or longer
\* than 10000 characters starts no model call and writes no generations and no
\* generation_error_logs row; an authenticated caller gets a validation error.
C9_InvalidLengthHasNoEffect ==
    ( /\ Serving("generations")
      /\ req[1].json[1].source_text.type = "string"
      /\ ~InSourceTextRange(req[1].json[1].source_text) ) =>
        /\ hpc = "done"
        /\ invoked = <<>>
        /\ call.pc = "idle"
        /\ HttpAttempts = 0
        /\ generations = <<>>
        /\ errorLogs = <<>>
        /\ req[1].user # None => resp # None /\ IsValidationError(resp[1])

\* 999 characters, one short of the minimum
C9_Witness ==
    /\ Serving("generations")
    /\ req[1].user # None
    /\ req[1].json[1].source_text.type = "string"
    /\ req[1].json[1].source_text.length = 999
    /\ hpc = "done"
    /\ resp[1].status = 400

\* the item breaks the rule between source and generation_id
BreaksSourceRule(item) ==
    \/ item.source = "manual" /\ item.generation_id # None
    \/ item.source \in {"ai-full", "ai-edited"} /\ item.generation_id = None

C11_ManualIffNoGeneration ==
    \A i \in 1..Len(flashcards) :
        flashcards[i].source = "manual" <=> flashcards[i].generation_id = None

(***************************************************************************)
(* Properties of generateFlashcards.                                       *)
(***************************************************************************)
\* the model call of the request has returned a decoded payload whose
\* flashcards field is an array
PayloadReturned ==
    /\ Serving("generations")
    /\ call.pc = "returned"
    /\ call.result[1].kind = "json"
    /\ call.result[1].json.hasFlashcards

PayloadCards == call.result[1].json.flashcards

\* the inserts generateFlashcards has issued into table
InsertsInto(table) ==
    SelectSeq(service.inserts, LAMBDA a : a.table = table)

\* C12: when the model call returns a payload of k cards, k other than 5,
\* generateFlashcards does not fail because of the count: it goes on to the
\* generations insert with generated_count = k, nothing but a failure of that
\* insert makes it raise, and what it returns is k proposals, each with front
\* of at most 200 and back of at most 500 characters and source ai-full.
C12_AnyCountIsAccepted ==
    (PayloadReturned /\ Len(PayloadCards) # 5 /\ hpc # "ai") =>
        LET k == Len(PayloadCards)
            inserted == InsertsInto("generations")
        IN /\ Len(inserted) = 1
           /\ inserted[1].rows[1].generated_count = k
           /\ service.pc = "returned" <=> inserted[1].outcome = "ok"
           /\ service.pc = "returned" =>
                 /\ service.result[1].generated_count = k
                 /\ Len(service.result[1].flashcards_proposals) = k
                 /\ \A i \in 1..k :
                       LET p == service.result[1].flashcards_proposals[i]
                       IN /\ p.front <= 200
                          /\ p.front = PayloadCards[i].front \/ PayloadCards[i].front > 200
                          /\ p.back <= 500
                          /\ p.back = PayloadCards[i].back \/ PayloadCards[i].back > 500
                          /\ p.source = "ai-full"
                 /\ resp[1].status = 201
                 /\ resp[1].body[1] = service.result[1]

\* a payload of 3 cards, two of them with a text over its limit, is returned
\* as 3 proposals
C12_Witness ==
    /\ PayloadReturned
    /\ service.pc = "returned"
    /\ Len(service.result[1].flashcards_proposals) = 3
    /\ PayloadCards[1].back > 500
    /\ PayloadCards[3].front > 200

\* generateFlashcards has failed or is about to: its catch block has run
Failing == service.name = "generateFlashcards" /\ service.pc \in {"log", "raised"}

\* C13: if the model call succeeds but the insert of the generations row
\* fails, generateFlashcards returns no result: it attempts one
\* generation_error_logs insert with the source_text_hash and
\* source_text_length given to the failed insert, and the error its caller
\* observes is the persistence error itself (the error the service throws for
\* a store error, or the error the insert threw).
C13_FailedGenerationInsert ==
    LET inserted == InsertsInto("generations")
        logged == InsertsInto("generation_error_logs")
    IN (Serving("generations") /\ Len(inserted) = 1 /\ inserted[1].outcome # "ok") =>
          /\ call.pc = "returned"
          /\ Failing
          /\ service.result = None
          /\ generations = <<>>
          /\ Len(logged) = 1
          /\ logged[1].rows[1].source_text_hash = inserted[1].rows[1].source_text_hash
          /\ logged[1].rows[1].source_text_length = inserted[1].rows[1].source_text_length
          /\ service.error[1] =
                (IF inserted[1].outcome = "error"
                 THEN PlainError("Error", "Failed to save generation metadata")
                 ELSE PlainError("TypeError", "fetch failed"))
          /\ hpc = "done" => service.pc = "raised" /\ resp[1].status = 500

\* the store refuses the generations row of a text longer than the minimum,
\* the error log is written, and the call has raised
C13_Witness ==
    LET inserted == InsertsInto("generations")
    IN /\ service.pc = "raised"
       /\ Len(inserted) = 1
       /\ inserted[1].outcome = "error"
       /\ inserted[1].rows[1].source_text_length > MinSourceText
       /\ Len(errorLogs) = 1

\* C14: whatever the outcome of the generation_error_logs insert, the error
\* generateFlashcards raises is the error E its catch block caught; a failing
\* error-log write neither replaces E nor makes the call return.
C14_LogOutcomeStep ==
    (hpc = "log" /\ hpc' = "done") =>
        /\ service.error # None
        /\ service'.pc = "raised"
        /\ service'.error = service.error
        /\ service'.result = None
        /\ resp'[1].status = 500

C14_LogFailureNeverMasks == [][C14_LogOutcomeStep]_vars

\* the error-log insert has thrown after a failure of the model call: the call
\* has raised
C14_Witness ==
    /\ service.pc = "raised"
    /\ call.pc = "raised"
    /\ service.inserts[Len(service.inserts)].outcome = "throws"

\* C15: generateFlashcards raises only after exactly one
\* generation_error_logs insert has been attempted, with the caller's user id,
\* the model name and the hash and length of the source text; this is so for
\* a failure of the model call, of the shape check and of the generations
\* insert, and no further attempt is made.
C15_RaiseStep ==
    (service.name = "generateFlashcards" /\ service.pc # "raised"
        /\ service'.pc = "raised") =>
        LET logged == InsertsInto("generation_error_logs")
            sourceText == req[1].json[1].source_text
        IN /\ service.pc = "log"
           /\ Len(logged) = 1
           /\ logged[1].outcome = "pending"
           /\ Len(logged[1].rows) = 1
           /\ logged[1].rows[1].user_id = req[1].user[1]
           /\ logged[1].rows[1].model = MODEL_NAME
           /\ logged[1].rows[1].source_text_hash = CalculateHash(sourceText)
           /\ logged[1].rows[1].source_text_length = sourceText.length
           /\ Len(service'.inserts) = Len(service.inserts)
           /\ \A i \in 1..Len(service.inserts) :
                 /\ service'.inserts[i].table = service.inserts[i].table
                 /\ service'.inserts[i].rows = service.inserts[i].rows

C15_OneLogAttemptBeforeRaise == [][C15_RaiseStep]_vars

\* the call has raised after a payload without a flashcards array
C15_Witness ==
    /\ service.pc = "raised"
    /\ call.pc = "returned"
    /\ ~call.result[1].json.hasFlashcards
    /\ Len(InsertsInto("generation_error_logs")) = 1

\* the classification codes of the errors the remote client raises
ClassifiedCodes ==
    {"AUTHENTICATION_ERROR", "RATE_LIMIT_ERROR", "TIMEOUT_ERROR", "NETWORK_ERROR",
     "HTTP_ERROR", "INVALID_RESPONSE", "EMPTY_RESPONSE", "JSON_PARSE_ERROR"}

\* C16: when generateFlashcards fails because the remote client raised a
\* classified error, the error_code of the generation_error_logs row is that
\* classification code.
C16_LoggedCodeIsClassification ==
    (Failing /\ call.pc = "raised" /\ call.error[1].name = "OpenRouterError"
        /\ call.error[1].code \in ClassifiedCodes) =>
        \A i \in 1..Len(InsertsInto("generation_error_logs")) :
            InsertsInto("generation_error_logs")[i].rows[1].error_code
                = call.error[1].code

\* C17: every generation request that passes input validation and is answered
\* with 500 has had a generation_error_logs insert attempted, the request that
\* fails for a missing API credential included.
C17_EveryFailureIsLogged ==
    (Serving("generations") /\ hpc = "done" /\ req[1].user # None
        /\ InSourceTextRange(req[1].json[1].source_text)
        /\ resp[1].status = 500) =>
        Len(InsertsInto("generation_error_logs")) >= 1

\* the failure classes with a message of their own
KnownClasses ==
    {"AUTHENTICATION_ERROR", "RATE_LIMIT_ERROR", "TIMEOUT_ERROR", "NETWORK_ERROR"}

\* C18: a generation request that fails for a known remote-service failure
\* class is answered with the message of that class, and the messages of the
\* four classes are pairwise distinct.
C18_SpecificMessageReachesCaller ==
    (Serving("generations") /\ hpc = "done" /\ call.pc = "raised"
        /\ call.error[1].code \in KnownClasses) =>
        /\ resp[1].message = RemapError(call.error[1]).message
        /\ \A c \in KnownClasses \ {call.error[1].code} :
              resp[1].message
                  # RemapError(OpenRouterError("m", c, None, "none", FALSE)).message

(***************************************************************************)
(* Properties of the two endpoints behind the middleware.                  *)
(***************************************************************************)
\* a flashcard item as the creation endpoint accepts it
AcceptableItem(item) ==
    /\ item.front >= 1 /\ item.front <= 200
    /\ item.back >= 1 /\ item.back <= 500
    /\ item.source \in {"ai-full", "ai-edited", "manual"}
    /\ item.source = "manual" <=> item.generation_id = None

\* the body of the request is JSON and is as its endpoint accepts it
AcceptableBody ==
    /\ req[1].json # None
    /\ IF req[1].endpoint = "generations"
       THEN InSourceTextRange(req[1].json[1].source_text)
       ELSE LET items == req[1].json[1].flashcards
            IN /\ Len(items) >= 1
               /\ \A i \in 1..Len(items) : AcceptableItem(items[i])

\* C19: a request of an authenticated user to either endpoint is answered
\* with 400 exactly when its body is not JSON or fails validation, with 500
\* exactly when validation passed and the service raised, and with 201
\* exactly when validation passed and the service returned; every such
\* request is answered, with one of these, and none before the service ends.
C19_StatusByOutcome ==
    (req # None /\ req[1].user # None) =>
        /\ hpc = "done" <=> resp # None
        /\ hpc # "done" => AcceptableBody /\ service.pc \in {"idle", "log"}
        /\ hpc = "done" =>
              /\ resp[1].status \in {400, 500, 201}
              /\ resp[1].status = 400 <=> ~AcceptableBody
              /\ resp[1].status = 500 <=> (AcceptableBody /\ service.pc = "raised")
              /\ resp[1].status = 201 <=> (AcceptableBody /\ service.pc = "returned")

\* the store answers the flashcards insert with no error and no row: the
\* service raises and the creation endpoint answers 500
C19_Witness ==
    /\ req # None /\ req[1].user # None /\ req[1].endpoint = "flashcards"
    /\ hpc = "done"
    /\ service.pc = "raised"
    /\ service.error[1].message = "No flashcards were created"
    /\ resp[1].status = 500

\* C20: a request without a session to either endpoint is answered with 401,
\* and no service and no store operation is invoked for it.
C20_UnauthenticatedGets401 ==
    (req # None /\ req[1].user = None /\ hpc = "done") =>
        /\ resp[1].status = 401
        /\ invoked = <<>>
        /\ service = IdleService
        /\ flashcards = <<>>
        /\ errorLogs = <<>>

(***************************************************************************)
(* Properties of FlashcardService and of the identity the rows carry.      *)
(***************************************************************************)
\* C21: every row a service sends to the store for the request of an
\* authenticated user, in flashcards, generations or generation_error_logs,
\* has the user_id of the session (locals.user.id), which is also the userId
\* the service is given, whatever user_id the request body carries.
C21_RowsCarrySessionUser ==
    (req # None /\ req[1].user # None) =>
        /\ service.args # None => service.args[1].userId = req[1].user[1]
        /\ \A k \in 1..Len(service.inserts) :
              \A i \in 1..Len(service.inserts[k].rows) :
                  service.inserts[k].rows[i].user_id = req[1].user[1]
        /\ \A i \in 1..Len(flashcards) : flashcards[i].user_id = req[1].user[1]
        /\ \A i \in 1..Len(errorLogs) : errorLogs[i].user_id = req[1].user[1]

\* an item of the body names another user than the session, and is stored
C21_Witness ==
    /\ req # None /\ req[1].user # None /\ req[1].endpoint = "flashcards"
    /\ req[1].json # None
    /\ \E i \in 1..Len(req[1].json[1].flashcards) :
          LET item == req[1].json[1].flashcards[i]
          IN "user_id" \in DOMAIN item /\ item.user_id # req[1].user[1]
    /\ Len(flashcards) >= 1

\* createFlashcards has been called with the arguments recorded
Called == service.name = "createFlashcards" /\ service.args # None

\* C22: createFlashcards called with an empty or missing list raises, issues
\* no insert and stores nothing; it does not return.
C22_EmptyListRaises ==
    (Called /\ Len(service.args[1].flashcards) = 0) =>
        /\ service.pc = "raised"
        /\ service.result = None
        /\ service.error[1].message = "At least one flashcard is required"
        /\ service.inserts = <<>>
        /\ flashcards = <<>>

C22_Witness ==
    /\ Called
    /\ service.args[1].flashcards = <<>>
    /\ service.pc = "raised"

\* C23: createFlashcards returns only if its one insert reported no error
\* and returned at least one row; when the store reports an error, or no
\* error and no row, it raises, and nothing is stored.
C23_ReturnsOnlyStoredRows ==
    (Called /\ Len(service.args[1].flashcards) >= 1) =>
        /\ Len(service.inserts) = 1
        /\ service.pc \in {"returned", "raised"}
        /\ service.pc = "returned" <=> service.inserts[1].outcome = "ok"
        /\ service.pc = "returned" =>
              /\ Len(service.result[1]) >= 1
              /\ Len(service.result[1]) = Len(service.args[1].flashcards)
              /\ flashcards = service.result[1]
        /\ service.pc = "raised" =>
              /\ service.result = None
              /\ service.error # None
              /\ flashcards = <<>>

\* the store reports no error and returns no row: the call has raised
C23_Witness ==
    /\ Called
    /\ Len(service.inserts) = 1
    /\ service.inserts[1].outcome = "empty"
    /\ service.pc = "raised"

C25_AttemptCountRecorded ==
    (CallEnded /\ Len(fetched) >= 1) =>
        svc.lastRequestMetadata[1].attempt = Len(fetched)

\* C29: the sleep after the attempt of index k is retryDelay * 2^k; it is
\* performed exactly when that attempt failed in a retryable class (timeout,
\* network, 429, 5xx) with k < maxRetries, whichever the class, and never
\* after a non-retryable failure or a success.
C29_BackoffRule ==
    /\ Len(slept) <= Len(fetched)
    /\ \A n \in 1..Len(fetched) :
          LET k == n - 1
          IN /\ Len(slept) >= n <=> (IsTransient(fetched[n]) /\ k < svc.maxRetries)
             /\ Len(slept) >= n => slept[n] = svc.retryDelay * 2^k

\* three sleeps, after a timeout, a transport failure and a 5xx
C29_Witness ==
    /\ Len(slept) = 3
    /\ fetched[1].kind = "abort"
    /\ fetched[2].kind = "network"
    /\ IsStatus(fetched[3], {500, 503})
    /\ slept[3] = 4 * svc.retryDelay

\* C30: an HTTP attempt is issued only as the first attempt of a call or,
\* for attempt k+1, when attempt k has settled and the sleep that follows it
\* has elapsed; while an attempt is in flight or the call sleeps, every
\* earlier attempt has settled, so at most one attempt is in flight.
C30_Step ==
    /\ (call'.pc = "fetch" /\ call' # call) =>
          \/ /\ call.pc \in {"idle", "returned", "raised"}
             /\ call'.attempt = 0
             /\ fetched' = <<>>
          \/ /\ call.pc = "backoff"
             /\ call'.attempt = call.attempt + 1
             /\ Len(fetched) = call.attempt + 1
             /\ Len(slept) = call.attempt + 1
             /\ fetched' = fetched
    /\ call'.pc = "fetch" => Len(fetched') = call'.attempt
    /\ call'.pc = "backoff" => Len(fetched') = call'.attempt + 1

C30_AttemptsAreSequential == [][C30_Step]_vars

\* the third attempt is in flight after two settled attempts and two sleeps
C30_Witness ==
    /\ call.pc = "fetch"
    /\ call.attempt = 2
    /\ Len(fetched) = 2
    /\ Len(slept) = 2

(***************************************************************************)
(* calculateHash on its own, over two requests.  generateFlashcards hashes *)
(* the source text of a request for the generations row once the AI has    *)
(* answered; logGenerationError hashes it for the error-log row when the   *)
(* request fails, before or after that.  The second request carries the    *)
(* text of the first, as it is or with one character replaced.             *)
(***************************************************************************)
MaxHashLen == 3

HashTexts == UNION {[1..n -> DOMAIN Utf8] : n \in 0..MaxHashLen}

Requests == {1, 2}

\* chars, and chars with one character replaced
Edits(chars) ==
    {chars} \cup {[chars EXCEPT ![i] = c] : i \in 1..Len(chars), c \in DOMAIN Utf8}

Started(request) == \E i \in DOMAIN hashed : hashed[i].request = request

TextOf(request) ==
    hashed[CHOOSE i \in DOMAIN hashed : hashed[i].request = request].text

\* request is the request being served and chars is its source text
HashesFor(request, chars) ==
    /\ \A i \in DOMAIN hashed : hashed[i].request <= request
    /\ IF Started(request) THEN chars = TextOf(request)
       ELSE \/ request = 1
            \/ Started(request - 1) /\ chars \in Edits(TextOf(request - 1))

HashCall(request, row, chars) ==
    [request |-> request, row |-> row, text |-> chars, hash |-> Sha256Hex(chars)]

GenerateFlashcardsHashes(request, chars) ==
    /\ HashesFor(request, chars)
    /\ ~Started(request)
    /\ hashed' = Append(hashed, HashCall(request, "generations", chars))
    /\ UNCHANGED <<svc, call, fetched, slept, lastSetModel, other, observed, jobs,
                   config, timer, parked, view>>
    /\ UNCHANGED apiVars

LogGenerationErrorHashes(request, chars) ==
    /\ HashesFor(request, chars)
    /\ \A i \in DOMAIN hashed :
          hashed[i].request = request => hashed[i].row = "generations"
    /\ hashed' = Append(hashed, HashCall(request, "generation_error_logs", chars))
    /\ UNCHANGED <<svc, call, fetched, slept, lastSetModel, other, observed, jobs,
                   config, timer, parked, view>>
    /\ UNCHANGED apiVars

NextHash ==
    \/ \E request \in Requests, chars \in HashTexts :
          GenerateFlashcardsHashes(request, chars)
    \/ \E request \in Requests, chars \in HashTexts :
          LogGenerationErrorHashes(request, chars)

SpecHash == InitInstance /\ [][NextHash]_vars

(***************************************************************************)
(* FlashcardGenerationView: the state of the component (textValue by its   *)
(* validity, isLoading, flashcards, generationId) and the save requests it *)
(* has in flight.  A proposal is given by its id, accepted and edited.     *)
(***************************************************************************)
\* most generations one session of the view asks for
MaxGenerations == 2
\* most proposals a generation answer carries
MaxShown == 2
\* most save requests in flight at once
MaxInFlight == 2

\* the component is mounted: the initial values of its useState hooks
Mount ==
    /\ view = None
    /\ view' = Some([textValid |-> FALSE, isLoading |-> FALSE, flashcards |-> <<>>,
                     generationId |-> None, generated |-> 0, saves |-> <<>>])
    /\ UNCHANGED <<clientVars, lastSetModel, other, observed, jobs, hashed, config,
                   timer, parked>>
    /\ UNCHANGED apiVars

\* the user types: isTextValid of the new text
SetTextValue(valid) ==
    /\ view # None
    /\ view' = Some([view[1] EXCEPT !.textValid = valid])
    /\ UNCHANGED <<clientVars, lastSetModel, other, observed, jobs, hashed, config,
                   timer, parked>>
    /\ UNCHANGED apiVars

\* the list and the save buttons are rendered
ListShown == view # None /\ ~view[1].isLoading /\ view[1].flashcards # <<>>

HandleGenerate ==
    /\ view # None
    /\ view[1].textValid /\ ~view[1].isLoading
    /\ view[1].generated < MaxGenerations
    /\ view' = Some([view[1] EXCEPT !.isLoading = TRUE, !.flashcards = <<>>,
                                    !.generationId = None])
    /\ UNCHANGED <<clientVars, lastSetModel, other, observed, jobs, hashed, config,
                   timer, parked>>
    /\ UNCHANGED apiVars

\* the generation request is answered, with count proposals or with an error
GenerationArrives(ok, count) ==
    /\ view # None
    /\ view[1].isLoading
    /\ LET id == view[1].generated + 1
       IN view' = Some(
            IF ok
            THEN [view[1] EXCEPT
                     !.flashcards = [i \in 1..count |->
                                        [id |-> <<id, i - 1>>, accepted |-> FALSE,
                                         edited |-> FALSE]],
                     !.generationId = Some(id),
                     !.generated = id,
                     !.isLoading = FALSE]
            ELSE [view[1] EXCEPT !.generated = id, !.isLoading = FALSE])
    /\ UNCHANGED <<clientVars, lastSetModel, other, observed, jobs, hashed, config,
                   timer, parked>>
    /\ UNCHANGED apiVars

HandleAccept(i) ==
    /\ ListShown
    /\ i \in DOMAIN view[1].flashcards
    /\ view' = Some([view[1] EXCEPT !.flashcards[i].accepted = ~@])
    /\ UNCHANGED <<clientVars, lastSetModel, other, observed, jobs, hashed, config,
                   timer, parked>>
    /\ UNCHANGED apiVars

HandleEdit(i) ==
    /\ ListShown
    /\ i \in DOMAIN view[1].flashcards
    /\ view' = Some([view[1] EXCEPT !.flashcards[i].edited = TRUE])
    /\ UNCHANGED <<clientVars, lastSetModel, other, observed, jobs, hashed, config,
                   timer, parked>>
    /\ UNCHANGED apiVars

HandleReject(i) ==
    /\ ListShown
    /\ i \in DOMAIN view[1].flashcards
    /\ view' = Some([view[1] EXCEPT
                        !.flashcards = SubSeq(@, 1, i - 1) \o SubSeq(@, i + 1, Len(@))])
    /\ UNCHANGED <<clientVars, lastSetModel, other, observed, jobs, hashed, config,
                   timer, parked>>
    /\ UNCHANGED apiVars

\* the body of a save request for cards
SaveRequest(cards) ==
    [i \in 1..Len(cards) |->
        [id |-> cards[i].id,
         source |-> IF cards[i].edited THEN "ai-edited" ELSE "ai-full",
         generation_id |-> view[1].generationId[1]]]

HandleSaveAll ==
    /\ ListShown
    /\ view[1].generationId # None
    /\ Len(view[1].saves) < MaxInFlight
    /\ view' = Some([view[1] EXCEPT
                        !.saves = Append(@, SaveRequest(view[1].flashcards))])
    /\ UNCHANGED <<clientVars, lastSetModel, other, observed, jobs, hashed, config,
                   timer, parked>>
    /\ UNCHANGED apiVars

HandleSaveAccepted ==
    /\ ListShown
    /\ view[1].generationId # None
    /\ Len(view[1].saves) < MaxInFlight
    /\ LET acceptedCards == SelectSeq(view[1].flashcards, LAMBDA card : card.accepted)
       IN /\ acceptedCards # <<>>
          /\ view' = Some([view[1] EXCEPT
                              !.saves = Append(@, SaveRequest(acceptedCards))])
    /\ UNCHANGED <<clientVars, lastSetModel, other, observed, jobs, hashed, config,
                   timer, parked>>
    /\ UNCHANGED apiVars

\* the save request k is answered; after a success the view is cleared
SaveArrives(k, ok) ==
    /\ view # None
    /\ k \in DOMAIN view[1].saves
    /\ LET rest == SubSeq(view[1].saves, 1, k - 1)
                       \o SubSeq(view[1].saves, k + 1, Len(view[1].saves))
       IN view' = Some(
            IF ok
            THEN [view[1] EXCEPT !.saves = rest, !.flashcards = <<>>,
                                 !.generationId = None, !.textValid = FALSE]
            ELSE [view[1] EXCEPT !.saves = rest])
    /\ UNCHANGED <<clientVars, lastSetModel, other, observed, jobs, hashed, config,
                   timer, parked>>
    /\ UNCHANGED apiVars

NextView ==
    \/ Mount
    \/ \E valid \in BOOLEAN : SetTextValue(valid)
    \/ HandleGenerate
    \/ \E ok \in BOOLEAN, count \in 0..MaxShown : GenerationArrives(ok, count)
    \/ \E i \in 1..MaxShown : HandleAccept(i)
    \/ \E i \in 1..MaxShown : HandleEdit(i)
    \/ \E i \in 1..MaxShown : HandleReject(i)
    \/ HandleSaveAll
    \/ HandleSaveAccepted
    \/ \E k \in 1..MaxInFlight, ok \in BOOLEAN : SaveArrives(k, ok)

SpecView == InitInstance /\ [][NextView]_vars

(***************************************************************************)
(* Properties of an instance that is reconfigured or shared.               *)
(***************************************************************************)
\* C26: when two calls overlap on one instance, the metadata a caller reads
\* when it resumes after its own call describes that call: its success flag
\* and its error code.
C26_CallerReadsOwnMetadata ==
    \A c \in Callers :
        observed[c] # None =>
            /\ observed[c][1].success = (CallOf(c).pc = "returned")
            /\ CallOf(c).pc = "raised" =>
                  observed[c][1].errorCode = CallOf(c).error[1].code

\* C27: after any setModel calls, the parameters of the next request payload
\* are the default parameters overridden by the parameters of the latest
\* setModel call alone.
C27_ParametersOverDefaults ==
    lastSetModel # None =>
        \A m \in {"Generate"} :
            BuildRequestPayload(svc, m).parameters
                = Spread(DefaultModelParameters, lastSetModel[1].parameters)

(***************************************************************************)
(* Properties of calculateHash.                                            *)
(***************************************************************************)
OneCharacterApart(s, t) ==
    /\ Len(s) = Len(t)
    /\ Cardinality({k \in 1..Len(s) : s[k] # t[k]}) = 1

C31_EveryCallEnds == (call.pc = "fetch") ~> CallEnded

\* C32: an instance constructed with maxRetries = 0 makes one HTTP attempt
\* per call and never sleeps, one constructed with retryDelay = 0 sleeps for
\* 0, and a value given at construction is the value the instance uses.
C32_ConfigurationIsUsed ==
    /\ config.maxRetries = Some(0) => HttpAttempts <= 1 /\ slept = <<>>
    /\ config.retryDelay = Some(0) => \A i \in DOMAIN slept : slept[i] = 0
    /\ config.maxRetries # None => svc.maxRetries = config.maxRetries[1]
    /\ config.retryDelay # None => svc.retryDelay = config.retryDelay[1]

(***************************************************************************)
(* Setters invoked while a call is in flight.                              *)
(***************************************************************************)
\* C33: a call that has ended decoded JSON exactly if its request payload
\* carried response_format, and its metadata names the model of its payload,
\* whatever setters ran while it was in flight.
C33_ParsedAsSent ==
    CallEnded /\ call.payload # None =>
        /\ svc.lastRequestMetadata[1].model = call.payload[1].model
        /\ call.pc = "returned" =>
              (call.result[1].kind = "json") = call.payload[1].response_format

(***************************************************************************)
(* Two generation requests at once.                                        *)
(***************************************************************************)
\* the generations insert of the request with the scope x carries the count
\* and the duration of the model call of x, and the metadata x reads from its
\* OpenRouterService is that of the same call
OwnModelCall(x) ==
    \A i \in DOMAIN x.service.inserts :
        x.service.inserts[i].table = "generations" =>
            LET row == x.service.inserts[i].rows[1]
            IN /\ x.call.pc = "returned"
               /\ x.svc.lastRequestMetadata = Some(SuccessMetadata(x.svc))
               /\ row.generated_count = Len(CallAIService(x.call).proposals)
               /\ row.generation_duration = SumSeq(x.slept)
               /\ row.user_id = x.req[1].user[1]

\* C34: under any interleaving of two generation requests, each with its own
\* GenerationService and OpenRouterService, the generated_count and the
\* generation_duration a request persists are those of its own model call.
C34_OwnClientPerRequest ==
    /\ OwnModelCall(RequestScope)
    /\ parked # None => OwnModelCall(parked[1])
    /\ \A i \in DOMAIN generations :
          \E x \in {RequestScope} \cup (IF parked = None THEN {} ELSE {parked[1]}) :
             \E j \in DOMAIN x.service.inserts :
                /\ x.service.inserts[j].outcome = "ok"
                /\ x.service.inserts[j].rows = <<generations[i]>>

\* both requests have persisted a generation, for different users, with
\* different counts and different durations
C34_Witness ==
    /\ Len(generations) = 2
    /\ generations[1].user_id # generations[2].user_id
    /\ generations[1].generated_count # generations[2].generated_count
    /\ generations[1].generation_duration # generations[2].generation_duration
    /\ generations[1].generation_duration = 0
    /\ parked # None /\ parked[1].hpc = "done" /\ hpc = "done"
    /\ parked[1].service.inserts[1].rows = <<generations[1]>>
    /\ Len(parked[1].fetched) = 1 /\ Len(fetched) = 2

(***************************************************************************)
(* The two outcomes of generateFlashcards.                                 *)
(***************************************************************************)
\* the inserts the invocation of generateFlashcards has made into table
InsertsOf(table) ==
    {i \in DOMAIN service.inserts : service.inserts[i].table = table}

\* C35: an invocation of generateFlashcards that has ended has returned or
\* raised.  If it returned, it made one insert, of one generations row that
\* is stored, whose id is the returned generation_id and whose
\* generated_count is the number of returned proposals, and it attempted no
\* error log; if it raised, it returned nothing and attempted an error log.
\* At no time has it both stored a generations row and attempted an error
\* log.
C35_ReturnsOrRaises ==
    service.name = "generateFlashcards" =>
        /\ hpc = "done" => service.pc \in {"returned", "raised"}
        /\ service.pc = "returned" =>
              /\ service.error = None
              /\ Len(service.inserts) = 1
              /\ service.inserts[1].table = "generations"
              /\ service.inserts[1].outcome = "ok"
              /\ Len(service.inserts[1].rows) = 1
              /\ generations = <<service.inserts[1].rows[1]>>
              /\ service.result[1].generation_id = generations[1].id
              /\ generations[1].generated_count
                    = Len(service.result[1].flashcards_proposals)
              /\ resp = Some(Created(service.result[1]))
        /\ service.pc = "raised" =>
              /\ service.result = None
              /\ service.error # None
              /\ InsertsOf("generation_error_logs") # {}
              /\ resp[1].body = None
        /\ ~ /\ \E i \in InsertsOf("generations") : service.inserts[i].outcome = "ok"
             /\ InsertsOf("generation_error_logs") # {}
        /\ InsertsOf("generation_error_logs") = {} /\ service.pc # "returned"
              => generations = <<>>

\* the invocation has raised after its generations insert was refused: it
\* made both inserts, and no generations row is stored
C35_Witness ==
    /\ service.name = "generateFlashcards"
    /\ service.pc = "raised"
    /\ Len(service.inserts) = 2
    /\ service.inserts[1].table = "generations"
    /\ service.inserts[1].outcome = "error"
    /\ service.inserts[1].rows[1].generated_count = 1
    /\ service.inserts[2].table = "generation_error_logs"
    /\ generations = <<>>

(***************************************************************************)
(* Proposals as the flashcard-creation request takes them.                 *)
(***************************************************************************)
\* the item handleSaveAll sends for an untouched proposal
SavedUnchanged(proposal, generationId) ==
    [front |-> proposal.front, back |-> proposal.back, source |-> "ai-full",
     generation_id |-> Some(generationId)]

\* C36: every proposal a successful generateFlashcards returns, sent
\* unchanged with the returned generation_id, passes flashcardCreateDtoSchema.
C36_ProposalsPassTheSchema ==
    service.name = "generateFlashcards" /\ service.pc = "returned" =>
        \A i \in DOMAIN service.result[1].flashcards_proposals :
            FlashcardCreateDtoIssues(
                SavedUnchanged(service.result[1].flashcards_proposals[i],
                               service.result[1].generation_id), i) = <<>>

(***************************************************************************)
(* Ownership of the generation a flashcard refers to.                      *)
(***************************************************************************)
\* C37: every stored flashcard of an AI source refers to a generations row
\* that exists and belongs to the user the flashcard belongs to.
C37_GenerationOfTheSameUser ==
    \A i \in 1..Len(flashcards) :
        flashcards[i].source \in {"ai-full", "ai-edited"} =>
            /\ flashcards[i].generation_id # None
            /\ \E g \in 1..Len(generations) :
                  /\ generations[g].id = flashcards[i].generation_id[1]
                  /\ generations[g].user_id = flashcards[i].user_id

(***************************************************************************)
(* Save requests of the generation view.                                   *)
(***************************************************************************)
\* the ids of the proposals the save request r carries
IdsOf(r) == {r[i].id : i \in DOMAIN r}

\* C38: no proposal is carried by two save requests of which the second was
\* issued while the first was still in flight.
C38_NoSecondSaveInFlight ==
    view # None =>
        \A j, k \in DOMAIN view[1].saves :
            j # k => IdsOf(view[1].saves[j]) \cap IdsOf(view[1].saves[k]) = {}

====
